---- MODULE Spec2Model ----
(***************************************************************************)
(* Model of the trading core of xianchenxc/trading-agent: the position     *)
(* store (FSM), the three-stage risk manager, the trend strategy, the      *)
(* backtest engine, the trade logger and the per-bar instance runner.      *)
(*                                                                         *)
(* Numbers are fixed point.  Prices and money are integer cents, R units   *)
(* are hundredths (RScale), rates are 1e-4 (RateScale), sizes are tenths   *)
(* of a unit (SizeScale).  A JavaScript `undefined` number is Undefined,   *)
(* an undefined string-valued field is "undefined", `null` is Null.        *)
(***************************************************************************)
EXTENDS Integers, Sequences, FiniteSets, TLC

VARIABLES
    store,          \* PositionStore: [state, position]
    currentEquity,  \* TradeLogger.currentEquity
    trades,         \* TradeLogger.trades
    barIndex,       \* number of LTF bars handed to the runner so far
    phase,          \* "idle" | "pending" | "done": where the bar loop stands
    bar, htf, ltf,  \* the bar being processed and its aligned indicators
    trace,          \* what onBar did on the bar being processed
    dispatched,     \* last action dispatched on the store by a direct caller
    prevStore,      \* the store before that action
    threw,          \* whether the last dispatch / onBar raised an error
    provider,       \* what the bar provider holds: klines and their indicators
    paper           \* PaperTradingInstanceState and what the polling loop did

vars == <<store, currentEquity, trades, barIndex, phase, bar, htf, ltf,
          trace, dispatched, prevStore, threw, provider, paper>>

feedVars == <<provider, paper>>

-----------------------------------------------------------------------------
(* Representation *)

Undefined == -1
UndefinedSeries == <<Undefined>>
Null == [null |-> TRUE]

RScale == 100
RateScale == 10000
SizeScale == 10

\* JavaScript truthiness of an optional number
Falsy(x) == x = Undefined \/ x = 0
Truthy(x) == ~Falsy(x)

\* `const x = e; ...`: the value of { body(x) : x \in {e} }, e evaluated once
Const(S) == CHOOSE x \in S : TRUE

Max(a, b) == IF a >= b THEN a ELSE b
Min(a, b) == IF a <= b THEN a ELSE b
Abs(a) == IF a >= 0 THEN a ELSE 0 - a

-----------------------------------------------------------------------------
(* Configuration (defaultConfig), in fixed point *)

MaxRiskPerTrade == 100
InitialStopPct == 100
BreakEvenR == 100
TrailingActivationR == 200
TrendExhaustADX == 20
TrendExhaustBars == 3
ProfitLockR == 400
InitialCapital == 1000000
CommissionRate == 10
SlippageRate == 5

config ==
    [risk |-> [maxRiskPerTrade |-> MaxRiskPerTrade,
               initialStopPct |-> InitialStopPct,
               breakEvenR |-> BreakEvenR,
               trailingActivationR |-> TrailingActivationR,
               trendExhaustADX |-> TrendExhaustADX,
               trendExhaustBars |-> TrendExhaustBars,
               profitLockR |-> ProfitLockR],
     account |-> [initialCapital |-> InitialCapital],
     execution |-> [commissionRate |-> CommissionRate,
                    slippageRate |-> SlippageRate]]

-----------------------------------------------------------------------------
(* PositionStore *)

\* An UPDATE_STOP payload / a StopLossUpdate with every field absent
EmptyUpdate ==
    [stopLoss |-> Undefined, trailingStop |-> Undefined,
     isTrailingActive |-> "undefined", maxUnrealizedR |-> Undefined,
     trailingMode |-> "undefined"]

NewStore == [state |-> "FLAT", position |-> Null]

get(s) == s.position

\* variant: a store that always reports FLAT
getStateAlwaysFlat(s) == "FLAT"

getState(s) == s.state

\* variant: only an OPEN store refuses a new position
OpenPositionGuardOpenOnly(s, action) ==
    IF s.state = "OPEN"
    THEN [store |-> s, threw |-> TRUE]
    ELSE [store |->
            [state |-> "OPEN",
             position |->
               [side |-> action.payload.side,
                entryPrice |-> action.payload.entryPrice,
                initialStopLoss |-> action.payload.stopLoss,
                stopLoss |-> action.payload.stopLoss,
                trailingStop |-> Undefined,
                size |-> action.payload.size,
                entryTime |-> action.payload.entryTime,
                isTrailingActive |-> FALSE,
                maxUnrealizedR |-> 0,
                trailingMode |-> "undefined",
                reason |-> action.reason]],
          threw |-> FALSE]

OpenPosition(s, action) ==
    IF s.position # Null \/ s.state # "FLAT"
    THEN [store |-> s, threw |-> TRUE]
    ELSE [store |->
            [state |-> "OPEN",
             position |->
               [side |-> action.payload.side,
                entryPrice |-> action.payload.entryPrice,
                initialStopLoss |-> action.payload.stopLoss,
                stopLoss |-> action.payload.stopLoss,
                trailingStop |-> Undefined,
                size |-> action.payload.size,
                entryTime |-> action.payload.entryTime,
                isTrailingActive |-> FALSE,
                maxUnrealizedR |-> 0,
                trailingMode |-> "undefined",
                reason |-> action.reason]],
          threw |-> FALSE]

\* variant: the stop can be updated in any state that has a position
UpdateStopAnyState(s, action) ==
    IF s.position = Null
    THEN [store |-> s, threw |-> FALSE]
    ELSE LET p == action.payload
             q == s.position
             q1 == IF p.stopLoss # Undefined
                   THEN [q EXCEPT !.stopLoss = p.stopLoss] ELSE q
             q2 == IF p.trailingStop # Undefined
                   THEN [q1 EXCEPT !.trailingStop = p.trailingStop] ELSE q1
             q3 == IF p.isTrailingActive # "undefined"
                   THEN [q2 EXCEPT !.isTrailingActive = (p.isTrailingActive = "true")]
                   ELSE q2
             q4 == IF p.maxUnrealizedR # Undefined
                   THEN [q3 EXCEPT !.maxUnrealizedR = p.maxUnrealizedR] ELSE q3
             q5 == IF p.trailingMode # "undefined"
                   THEN [q4 EXCEPT !.trailingMode = p.trailingMode] ELSE q4
         IN [store |-> [s EXCEPT !.position = q5], threw |-> FALSE]

\* variant: a new stop also becomes the initial stop
UpdateStopMovesInitialStop(s, action) ==
    IF s.position = Null \/ s.state # "OPEN"
    THEN [store |-> s, threw |-> FALSE]
    ELSE LET p == action.payload
             q == s.position
             q1 == IF p.stopLoss # Undefined
                   THEN [q EXCEPT !.stopLoss = p.stopLoss,
                                  !.initialStopLoss = p.stopLoss] ELSE q
             q2 == IF p.trailingStop # Undefined
                   THEN [q1 EXCEPT !.trailingStop = p.trailingStop] ELSE q1
             q3 == IF p.isTrailingActive # "undefined"
                   THEN [q2 EXCEPT !.isTrailingActive = (p.isTrailingActive = "true")]
                   ELSE q2
             q4 == IF p.maxUnrealizedR # Undefined
                   THEN [q3 EXCEPT !.maxUnrealizedR = p.maxUnrealizedR] ELSE q3
             q5 == IF p.trailingMode # "undefined"
                   THEN [q4 EXCEPT !.trailingMode = p.trailingMode] ELSE q4
         IN [store |-> [s EXCEPT !.position = q5], threw |-> FALSE]

UpdateStop(s, action) ==
    IF s.position = Null \/ s.state # "OPEN"
    THEN [store |-> s, threw |-> FALSE]
    ELSE LET p == action.payload
             q == s.position
             q1 == IF p.stopLoss # Undefined
                   THEN [q EXCEPT !.stopLoss = p.stopLoss] ELSE q
             q2 == IF p.trailingStop # Undefined
                   THEN [q1 EXCEPT !.trailingStop = p.trailingStop] ELSE q1
             q3 == IF p.isTrailingActive # "undefined"
                   THEN [q2 EXCEPT !.isTrailingActive = (p.isTrailingActive = "true")]
                   ELSE q2
             q4 == IF p.maxUnrealizedR # Undefined
                   THEN [q3 EXCEPT !.maxUnrealizedR = p.maxUnrealizedR] ELSE q3
             q5 == IF p.trailingMode # "undefined"
                   THEN [q4 EXCEPT !.trailingMode = p.trailingMode] ELSE q4
         IN [store |-> [s EXCEPT !.position = q5], threw |-> FALSE]

StartClosing(s) ==
    IF s.state = "OPEN"
    THEN [store |-> [s EXCEPT !.state = "CLOSING"], threw |-> FALSE]
    ELSE [store |-> s, threw |-> FALSE]

\* variant: closing without a position is an error
ClosePositionThrowsWhenFlat(s, action) ==
    IF s.position = Null
    THEN [store |-> s, threw |-> TRUE]
    ELSE [store |-> [state |-> "FLAT", position |-> Null], threw |-> FALSE]

ClosePosition(s, action) ==
    IF s.position = Null
    THEN [store |-> s, threw |-> FALSE]
    ELSE [store |-> [state |-> "FLAT", position |-> Null], threw |-> FALSE]

dispatch(s, action) ==
    CASE action.type = "OPEN_POSITION" -> OpenPosition(s, action)
      [] action.type = "UPDATE_STOP" -> UpdateStop(s, action)
      [] action.type = "START_CLOSING" -> StartClosing(s)
      [] action.type = "CLOSE_POSITION" -> ClosePosition(s, action)
      [] OTHER -> [store |-> s, threw |-> TRUE]

-----------------------------------------------------------------------------
(* Risk manager *)

calculatePositionSize(entryPrice, equity, riskPerTrade, stopLossPercent) ==
    LET stopLoss == (entryPrice * (RateScale - stopLossPercent)) \div RateScale
        riskAmount == (equity * riskPerTrade) \div RateScale
        riskPerUnit == entryPrice - stopLoss
    IN [size |-> (riskAmount * SizeScale) \div riskPerUnit,
        stopLoss |-> stopLoss]

getPositionStage(position) ==
    IF position.isTrailingActive THEN 3
    ELSE IF position.stopLoss >= position.entryPrice THEN 2
    ELSE 1

calculateUnrealizedR(position, currentPrice) ==
    IF position.side = "LONG"
    THEN LET unrealizedPnL == (currentPrice - position.entryPrice) * position.size
             initialRisk == (position.entryPrice - position.initialStopLoss) * position.size
         IN IF initialRisk > 0 THEN (unrealizedPnL * RScale) \div initialRisk ELSE 0
    ELSE IF position.side = "SHORT"
    THEN LET unrealizedPnL == (position.entryPrice - currentPrice) * position.size
             initialRisk == (position.initialStopLoss - position.entryPrice) * position.size
         IN IF initialRisk > 0 THEN (unrealizedPnL * RScale) \div initialRisk ELSE 0
    ELSE 0

\* variant: a short series is judged on the values it has
isTrendExhaustedShortSeries(adxSeries, threshold, bars) ==
    IF Len(adxSeries) = 0 THEN FALSE
    ELSE LET recent == IF Len(adxSeries) < bars + 1 THEN adxSeries
                       ELSE SubSeq(adxSeries, Len(adxSeries) - bars, Len(adxSeries))
         IN IF recent[Len(recent)] >= threshold THEN FALSE
            ELSE \A i \in 2..Len(recent) : recent[i] < recent[i - 1]

\* variant: the length test is against bars, not bars + 1
isTrendExhaustedNeedsOnlyBars(adxSeries, threshold, bars) ==
    IF Len(adxSeries) < bars THEN FALSE
    ELSE LET recent == SubSeq(adxSeries, Max(1, Len(adxSeries) - bars), Len(adxSeries))
         IN IF recent[Len(recent)] >= threshold THEN FALSE
            ELSE \A i \in 2..Len(recent) : recent[i] < recent[i - 1]

\* variant: a value equal to its predecessor counts as declining
isTrendExhaustedAllowsTies(adxSeries, threshold, bars) ==
    IF Len(adxSeries) < bars + 1 THEN FALSE
    ELSE LET recent == SubSeq(adxSeries, Len(adxSeries) - bars, Len(adxSeries))
         IN IF recent[Len(recent)] >= threshold THEN FALSE
            ELSE \A i \in 2..Len(recent) : recent[i] <= recent[i - 1]

isTrendExhausted(adxSeries, threshold, bars) ==
    IF Len(adxSeries) < bars + 1 THEN FALSE
    ELSE LET recent == SubSeq(adxSeries, Len(adxSeries) - bars, Len(adxSeries))
         IN IF recent[Len(recent)] >= threshold THEN FALSE
            ELSE \A i \in 2..Len(recent) : recent[i] < recent[i - 1]

\* variant: the trailing stop follows the EMA in both directions
updateTrailingStopBothWays(position, ema20_1h, ema50_1h, currentPrice) ==
    IF ~position.isTrailingActive THEN Null
    ELSE LET trailingMode == IF position.trailingMode = "undefined"
                             THEN "EMA20" ELSE position.trailingMode
             trailingBase == IF trailingMode = "EMA50" THEN ema50_1h ELSE ema20_1h
             currentTrailingStop == IF Falsy(position.trailingStop)
                                    THEN position.entryPrice
                                    ELSE position.trailingStop
         IN IF trailingBase = Undefined THEN Null
            ELSE IF trailingBase # currentTrailingStop
            THEN [EmptyUpdate EXCEPT !.trailingStop = trailingBase]
            ELSE Null

\* variant: the trailing mode is ignored, the stop always follows EMA20
updateTrailingStopAlwaysShort(position, ema20_1h, ema50_1h, currentPrice) ==
    IF ~position.isTrailingActive THEN Null
    ELSE LET trailingMode == IF position.trailingMode = "undefined"
                             THEN "EMA20" ELSE position.trailingMode
             trailingBase == IF trailingMode = "EMA50" THEN ema20_1h ELSE ema20_1h
             currentTrailingStop == IF Falsy(position.trailingStop)
                                    THEN position.entryPrice
                                    ELSE position.trailingStop
         IN IF trailingBase = Undefined THEN Null
            ELSE IF trailingBase > currentTrailingStop
            THEN [EmptyUpdate EXCEPT !.trailingStop = trailingBase]
            ELSE Null

updateTrailingStop(position, ema20_1h, ema50_1h, currentPrice) ==
    IF ~position.isTrailingActive THEN Null
    ELSE LET trailingMode == IF position.trailingMode = "undefined"
                             THEN "EMA20" ELSE position.trailingMode
             trailingBase == IF trailingMode = "EMA50" THEN ema50_1h ELSE ema20_1h
             currentTrailingStop == IF Falsy(position.trailingStop)
                                    THEN position.entryPrice
                                    ELSE position.trailingStop
         IN IF trailingBase = Undefined THEN Null
            ELSE IF trailingBase > currentTrailingStop
            THEN [EmptyUpdate EXCEPT !.trailingStop = trailingBase]
            ELSE Null

\* variant: break-even moves the stop to the current price
checkStopLossProgressionStopAtPrice(position, currentPrice, breakEvenR, trailingActivationR, profitLockR) ==
    LET unrealizedR == calculateUnrealizedR(position, currentPrice)
        prevMaxR == IF Falsy(position.maxUnrealizedR) THEN 0 ELSE position.maxUnrealizedR
        maxR == Max(prevMaxR, unrealizedR)
        currentStage == getPositionStage(position)
        prevMode == IF position.trailingMode = "undefined"
                    THEN "EMA20" ELSE position.trailingMode
    IN IF currentStage = 3
       THEN LET trailingMode == IF Truthy(profitLockR) /\ maxR >= profitLockR
                                THEN "EMA50" ELSE prevMode
                shouldUpdate == maxR > prevMaxR \/ trailingMode # prevMode
            IN IF ~shouldUpdate THEN Null
               ELSE [EmptyUpdate EXCEPT !.maxUnrealizedR = maxR,
                                        !.trailingMode = trailingMode]
       ELSE IF unrealizedR >= trailingActivationR
       THEN [EmptyUpdate EXCEPT !.stopLoss = position.entryPrice,
                                !.isTrailingActive = "true",
                                !.trailingMode = "EMA20",
                                !.maxUnrealizedR = maxR]
       ELSE IF unrealizedR >= breakEvenR /\ unrealizedR < trailingActivationR
       THEN IF currentStage = 1
            THEN [EmptyUpdate EXCEPT !.stopLoss = currentPrice,
                                     !.isTrailingActive = "false",
                                     !.maxUnrealizedR = maxR]
            ELSE IF maxR > prevMaxR
            THEN [EmptyUpdate EXCEPT !.maxUnrealizedR = maxR]
            ELSE Null
       ELSE IF maxR > prevMaxR
       THEN [EmptyUpdate EXCEPT !.maxUnrealizedR = maxR]
       ELSE Null

\* variant: below break-even the high-water mark is not tracked
checkStopLossProgressionUntrackedBelowBreakEven(position, currentPrice, breakEvenR, trailingActivationR, profitLockR) ==
    LET unrealizedR == calculateUnrealizedR(position, currentPrice)
        prevMaxR == IF Falsy(position.maxUnrealizedR) THEN 0 ELSE position.maxUnrealizedR
        maxR == Max(prevMaxR, unrealizedR)
        currentStage == getPositionStage(position)
        prevMode == IF position.trailingMode = "undefined"
                    THEN "EMA20" ELSE position.trailingMode
    IN IF currentStage = 3
       THEN LET trailingMode == IF Truthy(profitLockR) /\ maxR >= profitLockR
                                THEN "EMA50" ELSE prevMode
                shouldUpdate == maxR > prevMaxR \/ trailingMode # prevMode
            IN IF ~shouldUpdate THEN Null
               ELSE [EmptyUpdate EXCEPT !.maxUnrealizedR = maxR,
                                        !.trailingMode = trailingMode]
       ELSE IF unrealizedR >= trailingActivationR
       THEN [EmptyUpdate EXCEPT !.stopLoss = position.entryPrice,
                                !.isTrailingActive = "true",
                                !.trailingMode = "EMA20",
                                !.maxUnrealizedR = maxR]
       ELSE IF unrealizedR >= breakEvenR /\ unrealizedR < trailingActivationR
       THEN IF currentStage = 1
            THEN [EmptyUpdate EXCEPT !.stopLoss = position.entryPrice,
                                     !.isTrailingActive = "false",
                                     !.maxUnrealizedR = maxR]
            ELSE IF maxR > prevMaxR
            THEN [EmptyUpdate EXCEPT !.maxUnrealizedR = maxR]
            ELSE Null
       ELSE Null

\* variant: the trailing mode never switches
checkStopLossProgressionNoProfitLock(position, currentPrice, breakEvenR, trailingActivationR, profitLockR) ==
    LET unrealizedR == calculateUnrealizedR(position, currentPrice)
        prevMaxR == IF Falsy(position.maxUnrealizedR) THEN 0 ELSE position.maxUnrealizedR
        maxR == Max(prevMaxR, unrealizedR)
        currentStage == getPositionStage(position)
        prevMode == IF position.trailingMode = "undefined"
                    THEN "EMA20" ELSE position.trailingMode
    IN IF currentStage = 3
       THEN LET trailingMode == prevMode
                shouldUpdate == maxR > prevMaxR \/ trailingMode # prevMode
            IN IF ~shouldUpdate THEN Null
               ELSE [EmptyUpdate EXCEPT !.maxUnrealizedR = maxR,
                                        !.trailingMode = trailingMode]
       ELSE IF unrealizedR >= trailingActivationR
       THEN [EmptyUpdate EXCEPT !.stopLoss = position.entryPrice,
                                !.isTrailingActive = "true",
                                !.trailingMode = "EMA20",
                                !.maxUnrealizedR = maxR]
       ELSE IF unrealizedR >= breakEvenR /\ unrealizedR < trailingActivationR
       THEN IF currentStage = 1
            THEN [EmptyUpdate EXCEPT !.stopLoss = position.entryPrice,
                                     !.isTrailingActive = "false",
                                     !.maxUnrealizedR = maxR]
            ELSE IF maxR > prevMaxR
            THEN [EmptyUpdate EXCEPT !.maxUnrealizedR = maxR]
            ELSE Null
       ELSE IF maxR > prevMaxR
       THEN [EmptyUpdate EXCEPT !.maxUnrealizedR = maxR]
       ELSE Null

\* variant: Stage 1 keeps its stop between break-even and activation
checkStopLossProgressionNoBreakEven(position, currentPrice, breakEvenR, trailingActivationR, profitLockR) ==
    LET unrealizedR == calculateUnrealizedR(position, currentPrice)
        prevMaxR == IF Falsy(position.maxUnrealizedR) THEN 0 ELSE position.maxUnrealizedR
        maxR == Max(prevMaxR, unrealizedR)
        currentStage == getPositionStage(position)
        prevMode == IF position.trailingMode = "undefined"
                    THEN "EMA20" ELSE position.trailingMode
    IN IF currentStage = 3
       THEN LET trailingMode == IF Truthy(profitLockR) /\ maxR >= profitLockR
                                THEN "EMA50" ELSE prevMode
                shouldUpdate == maxR > prevMaxR \/ trailingMode # prevMode
            IN IF ~shouldUpdate THEN Null
               ELSE [EmptyUpdate EXCEPT !.maxUnrealizedR = maxR,
                                        !.trailingMode = trailingMode]
       ELSE IF unrealizedR >= trailingActivationR
       THEN [EmptyUpdate EXCEPT !.stopLoss = position.entryPrice,
                                !.isTrailingActive = "true",
                                !.trailingMode = "EMA20",
                                !.maxUnrealizedR = maxR]
       ELSE IF unrealizedR >= breakEvenR /\ unrealizedR < trailingActivationR
       THEN IF currentStage = 1
            THEN [EmptyUpdate EXCEPT !.maxUnrealizedR = maxR]
            ELSE IF maxR > prevMaxR
            THEN [EmptyUpdate EXCEPT !.maxUnrealizedR = maxR]
            ELSE Null
       ELSE IF maxR > prevMaxR
       THEN [EmptyUpdate EXCEPT !.maxUnrealizedR = maxR]
       ELSE Null

\* variant: trailing is activated in EMA50 mode
checkStopLossProgressionActivatesMedium(position, currentPrice, breakEvenR, trailingActivationR, profitLockR) ==
    LET unrealizedR == calculateUnrealizedR(position, currentPrice)
        prevMaxR == IF Falsy(position.maxUnrealizedR) THEN 0 ELSE position.maxUnrealizedR
        maxR == Max(prevMaxR, unrealizedR)
        currentStage == getPositionStage(position)
        prevMode == IF position.trailingMode = "undefined"
                    THEN "EMA20" ELSE position.trailingMode
    IN IF currentStage = 3
       THEN LET trailingMode == IF Truthy(profitLockR) /\ maxR >= profitLockR
                                THEN "EMA50" ELSE prevMode
                shouldUpdate == maxR > prevMaxR \/ trailingMode # prevMode
            IN IF ~shouldUpdate THEN Null
               ELSE [EmptyUpdate EXCEPT !.maxUnrealizedR = maxR,
                                        !.trailingMode = trailingMode]
       ELSE IF unrealizedR >= trailingActivationR
       THEN [EmptyUpdate EXCEPT !.stopLoss = position.entryPrice,
                                !.isTrailingActive = "true",
                                !.trailingMode = "EMA50",
                                !.maxUnrealizedR = maxR]
       ELSE IF unrealizedR >= breakEvenR /\ unrealizedR < trailingActivationR
       THEN IF currentStage = 1
            THEN [EmptyUpdate EXCEPT !.stopLoss = position.entryPrice,
                                     !.isTrailingActive = "false",
                                     !.maxUnrealizedR = maxR]
            ELSE IF maxR > prevMaxR
            THEN [EmptyUpdate EXCEPT !.maxUnrealizedR = maxR]
            ELSE Null
       ELSE IF maxR > prevMaxR
       THEN [EmptyUpdate EXCEPT !.maxUnrealizedR = maxR]
       ELSE Null

\* variant: below break-even the stop returns to the initial stop
checkStopLossProgressionFallsBack(position, currentPrice, breakEvenR, trailingActivationR, profitLockR) ==
    LET unrealizedR == calculateUnrealizedR(position, currentPrice)
        prevMaxR == IF Falsy(position.maxUnrealizedR) THEN 0 ELSE position.maxUnrealizedR
        maxR == Max(prevMaxR, unrealizedR)
        currentStage == getPositionStage(position)
        prevMode == IF position.trailingMode = "undefined"
                    THEN "EMA20" ELSE position.trailingMode
    IN IF currentStage = 3
       THEN LET trailingMode == IF Truthy(profitLockR) /\ maxR >= profitLockR
                                THEN "EMA50" ELSE prevMode
                shouldUpdate == maxR > prevMaxR \/ trailingMode # prevMode
            IN IF ~shouldUpdate THEN Null
               ELSE [EmptyUpdate EXCEPT !.maxUnrealizedR = maxR,
                                        !.trailingMode = trailingMode]
       ELSE IF unrealizedR >= trailingActivationR
       THEN [EmptyUpdate EXCEPT !.stopLoss = position.entryPrice,
                                !.isTrailingActive = "true",
                                !.trailingMode = "EMA20",
                                !.maxUnrealizedR = maxR]
       ELSE IF unrealizedR >= breakEvenR /\ unrealizedR < trailingActivationR
       THEN IF currentStage = 1
            THEN [EmptyUpdate EXCEPT !.stopLoss = position.entryPrice,
                                     !.isTrailingActive = "false",
                                     !.maxUnrealizedR = maxR]
            ELSE IF maxR > prevMaxR
            THEN [EmptyUpdate EXCEPT !.maxUnrealizedR = maxR]
            ELSE Null
       ELSE [EmptyUpdate EXCEPT !.stopLoss = position.initialStopLoss,
                                !.maxUnrealizedR = maxR]

checkStopLossProgression(position, currentPrice, breakEvenR, trailingActivationR, profitLockR) ==
    LET unrealizedR == calculateUnrealizedR(position, currentPrice)
        prevMaxR == IF Falsy(position.maxUnrealizedR) THEN 0 ELSE position.maxUnrealizedR
        maxR == Max(prevMaxR, unrealizedR)
        currentStage == getPositionStage(position)
        prevMode == IF position.trailingMode = "undefined"
                    THEN "EMA20" ELSE position.trailingMode
    IN IF currentStage = 3
       THEN LET trailingMode == IF Truthy(profitLockR) /\ maxR >= profitLockR
                                THEN "EMA50" ELSE prevMode
                shouldUpdate == maxR > prevMaxR \/ trailingMode # prevMode
            IN IF ~shouldUpdate THEN Null
               ELSE [EmptyUpdate EXCEPT !.maxUnrealizedR = maxR,
                                        !.trailingMode = trailingMode]
       ELSE IF unrealizedR >= trailingActivationR
       THEN [EmptyUpdate EXCEPT !.stopLoss = position.entryPrice,
                                !.isTrailingActive = "true",
                                !.trailingMode = "EMA20",
                                !.maxUnrealizedR = maxR]
       ELSE IF unrealizedR >= breakEvenR /\ unrealizedR < trailingActivationR
       THEN IF currentStage = 1
            THEN [EmptyUpdate EXCEPT !.stopLoss = position.entryPrice,
                                     !.isTrailingActive = "false",
                                     !.maxUnrealizedR = maxR]
            ELSE IF maxR > prevMaxR
            THEN [EmptyUpdate EXCEPT !.maxUnrealizedR = maxR]
            ELSE Null
       ELSE IF maxR > prevMaxR
       THEN [EmptyUpdate EXCEPT !.maxUnrealizedR = maxR]
       ELSE Null

createExitDecision(reason) == [action |-> "EXIT", reason |-> reason]

\* variant: a touched trailing stop always exits
checkTrailingStopNoFilter(position, barLow, unrealizedR, ltfIndicator, cfg) ==
    IF ~position.isTrailingActive \/ Falsy(position.trailingStop)
       \/ barLow > position.trailingStop
    THEN Null
    ELSE IF Truthy(cfg.risk.trendExhaustADX) /\ Truthy(cfg.risk.trendExhaustBars)
            /\ ltfIndicator.adx_1h_series # UndefinedSeries
    THEN IF isTrendExhausted(ltfIndicator.adx_1h_series,
                             cfg.risk.trendExhaustADX, cfg.risk.trendExhaustBars)
         THEN createExitDecision("TRAILING_STOP_HIT")
         ELSE createExitDecision("TRAILING_STOP_HIT")
    ELSE createExitDecision("TRAILING_STOP_HIT")

\* variant: a missing ADX history blocks the exit
checkTrailingStopBlocksOnMissingHistory(position, barLow, unrealizedR, ltfIndicator, cfg) ==
    IF ~position.isTrailingActive \/ Falsy(position.trailingStop)
       \/ barLow > position.trailingStop
    THEN Null
    ELSE IF Truthy(cfg.risk.trendExhaustADX) /\ Truthy(cfg.risk.trendExhaustBars)
            /\ ltfIndicator.adx_1h_series # UndefinedSeries
    THEN IF isTrendExhausted(ltfIndicator.adx_1h_series,
                             cfg.risk.trendExhaustADX, cfg.risk.trendExhaustBars)
         THEN createExitDecision("TRAILING_STOP_HIT")
         ELSE Null
    ELSE Null

checkTrailingStopWithTrendExhaustion(position, barLow, unrealizedR, ltfIndicator, cfg) ==
    IF ~position.isTrailingActive \/ Falsy(position.trailingStop)
       \/ barLow > position.trailingStop
    THEN Null
    ELSE IF Truthy(cfg.risk.trendExhaustADX) /\ Truthy(cfg.risk.trendExhaustBars)
            /\ ltfIndicator.adx_1h_series # UndefinedSeries
    THEN IF isTrendExhausted(ltfIndicator.adx_1h_series,
                             cfg.risk.trendExhaustADX, cfg.risk.trendExhaustBars)
         THEN createExitDecision("TRAILING_STOP_HIT")
         ELSE Null
    ELSE createExitDecision("TRAILING_STOP_HIT")

\* variant: the stage-3 exclusion is missing
checkStopLossTriggerAllStages(position, barLow, activeStop) ==
    IF position.side # "LONG" \/ barLow > activeStop THEN Null
    ELSE LET stage == getPositionStage(position)
         IN IF stage >= 2 /\ barLow <= position.stopLoss
            THEN createExitDecision("STOP_LOSS_BREAK_EVEN")
            ELSE IF stage = 1 /\ barLow <= position.stopLoss
            THEN createExitDecision("STOP_LOSS_INITIAL")
            ELSE Null

\* variant: in Stage 3 a low at or below the initial stop exits
checkStopLossTriggerHardInitialStop(position, barLow, activeStop) ==
    IF position.side # "LONG" \/ barLow > activeStop THEN Null
    ELSE LET stage == getPositionStage(position)
         IN IF stage = 3
            THEN IF barLow <= position.initialStopLoss
                 THEN createExitDecision("STOP_LOSS_INITIAL") ELSE Null
            ELSE IF stage = 2 /\ barLow <= position.stopLoss
            THEN createExitDecision("STOP_LOSS_BREAK_EVEN")
            ELSE IF stage = 1 /\ barLow <= position.stopLoss
            THEN createExitDecision("STOP_LOSS_INITIAL")
            ELSE Null

checkStopLossTrigger(position, barLow, activeStop) ==
    IF position.side # "LONG" \/ barLow > activeStop THEN Null
    ELSE LET stage == getPositionStage(position)
         IN IF stage = 3 THEN Null
            ELSE IF stage = 2 /\ barLow <= position.stopLoss
            THEN createExitDecision("STOP_LOSS_BREAK_EVEN")
            ELSE IF stage = 1 /\ barLow <= position.stopLoss
            THEN createExitDecision("STOP_LOSS_INITIAL")
            ELSE Null

\* variant: a fresh trailing stop starts at the current stop
updateTrailingStopIfActiveFromStop(position, progressionUpdate, ltfIndicator, currentPrice) ==
    LET isJustActivated ==
            (progressionUpdate # Null /\ progressionUpdate.isTrailingActive = "true")
            /\ ~position.isTrailingActive
        initialTrailingStop ==
            IF isJustActivated THEN position.stopLoss
            ELSE IF Falsy(position.trailingStop) THEN position.entryPrice
            ELSE position.trailingStop
        trailingMode ==
            IF progressionUpdate # Null /\ progressionUpdate.trailingMode # "undefined"
            THEN progressionUpdate.trailingMode
            ELSE IF position.trailingMode # "undefined" THEN position.trailingMode
            ELSE "EMA20"
        emaUpdate ==
            updateTrailingStop(
                [position EXCEPT !.isTrailingActive = TRUE,
                                 !.trailingStop = initialTrailingStop,
                                 !.trailingMode = trailingMode],
                ltfIndicator.ema20, ltfIndicator.ema50, currentPrice)
        finalTrailingStop ==
            IF emaUpdate # Null /\ Truthy(emaUpdate.trailingStop)
            THEN emaUpdate.trailingStop ELSE initialTrailingStop
    IN IF progressionUpdate = Null /\ emaUpdate = Null /\ ~isJustActivated
       THEN Null
       ELSE [stopLoss |-> finalTrailingStop,
             trailingStop |-> finalTrailingStop,
             isTrailingActive |-> "true",
             trailingMode |-> trailingMode,
             maxUnrealizedR |->
                IF progressionUpdate # Null /\ Truthy(progressionUpdate.maxUnrealizedR)
                THEN progressionUpdate.maxUnrealizedR
                ELSE position.maxUnrealizedR]

updateTrailingStopIfActive(position, progressionUpdate, ltfIndicator, currentPrice) ==
    LET isJustActivated ==
            (progressionUpdate # Null /\ progressionUpdate.isTrailingActive = "true")
            /\ ~position.isTrailingActive
        initialTrailingStop ==
            IF isJustActivated THEN position.entryPrice
            ELSE IF Falsy(position.trailingStop) THEN position.entryPrice
            ELSE position.trailingStop
        trailingMode ==
            IF progressionUpdate # Null /\ progressionUpdate.trailingMode # "undefined"
            THEN progressionUpdate.trailingMode
            ELSE IF position.trailingMode # "undefined" THEN position.trailingMode
            ELSE "EMA20"
        emaUpdate ==
            updateTrailingStop(
                [position EXCEPT !.isTrailingActive = TRUE,
                                 !.trailingStop = initialTrailingStop,
                                 !.trailingMode = trailingMode],
                ltfIndicator.ema20, ltfIndicator.ema50, currentPrice)
        finalTrailingStop ==
            IF emaUpdate # Null /\ Truthy(emaUpdate.trailingStop)
            THEN emaUpdate.trailingStop ELSE initialTrailingStop
    IN IF progressionUpdate = Null /\ emaUpdate = Null /\ ~isJustActivated
       THEN Null
       ELSE [stopLoss |-> finalTrailingStop,
             trailingStop |-> finalTrailingStop,
             isTrailingActive |-> "true",
             trailingMode |-> trailingMode,
             maxUnrealizedR |->
                IF progressionUpdate # Null /\ Truthy(progressionUpdate.maxUnrealizedR)
                THEN progressionUpdate.maxUnrealizedR
                ELSE position.maxUnrealizedR]

riskManager(position, b, ltfIndicator, cfg) ==
    LET activeStop == position.stopLoss
        unrealizedR == calculateUnrealizedR(position, b.close)
        trailingStopDecision ==
            checkTrailingStopWithTrendExhaustion(position, b.low, unrealizedR,
                                                 ltfIndicator, cfg)
        stopLossDecision == checkStopLossTrigger(position, b.low, activeStop)
        progressionUpdate ==
            checkStopLossProgression(position, b.close, cfg.risk.breakEvenR,
                                     cfg.risk.trailingActivationR, cfg.risk.profitLockR)
        currentStage == getPositionStage(position)
        isTrailingActive ==
            currentStage = 3
            \/ (progressionUpdate # Null /\ progressionUpdate.isTrailingActive = "true")
        stopLossUpdate ==
            IF isTrailingActive
            THEN updateTrailingStopIfActive(position, progressionUpdate,
                                            ltfIndicator, b.close)
            ELSE IF progressionUpdate # Null
            THEN [stopLoss |-> progressionUpdate.stopLoss,
                  trailingStop |-> Undefined,
                  isTrailingActive |->
                     IF progressionUpdate.isTrailingActive = "undefined"
                     THEN "false" ELSE progressionUpdate.isTrailingActive,
                  maxUnrealizedR |->
                     IF progressionUpdate.maxUnrealizedR = Undefined
                     THEN position.maxUnrealizedR
                     ELSE progressionUpdate.maxUnrealizedR,
                  trailingMode |->
                     IF progressionUpdate.trailingMode = "undefined"
                     THEN position.trailingMode
                     ELSE progressionUpdate.trailingMode]
            ELSE Null
    IN IF trailingStopDecision # Null
       THEN [decision |-> trailingStopDecision, stopLossUpdate |-> Null]
       ELSE IF stopLossDecision # Null
       THEN [decision |-> stopLossDecision, stopLossUpdate |-> Null]
       ELSE [decision |-> [action |-> "NONE", reason |-> "undefined"],
             stopLossUpdate |-> stopLossUpdate]

-----------------------------------------------------------------------------
(* Strategy *)

HTFAdxMin == 20
LTFAdxMin == 25

Hold == [type |-> "HOLD", side |-> "undefined", reason |-> "undefined"]

\* variant: an HTF ADX equal to the threshold counts as a trend
getHTFTrendStateInclusive(htfIndicator) ==
    IF htfIndicator.ema50 = Undefined \/ htfIndicator.ema200 = Undefined
       \/ htfIndicator.adx = Undefined
    THEN "RANGE"
    ELSE IF htfIndicator.ema50 > htfIndicator.ema200 /\ htfIndicator.adx >= HTFAdxMin
    THEN "BULL"
    ELSE "RANGE"

getHTFTrendState(htfIndicator) ==
    IF htfIndicator.ema50 = Undefined \/ htfIndicator.ema200 = Undefined
       \/ htfIndicator.adx = Undefined
    THEN "RANGE"
    ELSE IF htfIndicator.ema50 > htfIndicator.ema200 /\ htfIndicator.adx > HTFAdxMin
    THEN "BULL"
    ELSE "RANGE"

trendStrategy(context) ==
    LET b == context.bar
        htfIndicator == context.htfIndicator
        ltfIndicator == context.ltfIndicator
        positionState == context.positionState
    IN IF htfIndicator = Null \/ ltfIndicator = Null THEN Hold
       ELSE IF ltfIndicator.ema20 = Undefined \/ ltfIndicator.ema50 = Undefined
               \/ ltfIndicator.adx = Undefined
       THEN Hold
       ELSE IF htfIndicator.ema50 = Undefined \/ htfIndicator.ema200 = Undefined
               \/ htfIndicator.adx = Undefined
       THEN Hold
       ELSE IF positionState = "OPEN" THEN Hold
       ELSE IF positionState = "FLAT"
       THEN IF ltfIndicator.donchianHigh = Undefined THEN Hold
            ELSE IF getHTFTrendState(htfIndicator) = "BULL"
                    /\ ltfIndicator.adx > LTFAdxMin
                    /\ ltfIndicator.ema20 > ltfIndicator.ema50
                    /\ b.close > ltfIndicator.donchianHigh
            THEN [type |-> "ENTRY", side |-> "LONG",
                  reason |-> "HTF_BULL_BREAKOUT_CONFIRMED"]
            ELSE Hold
       ELSE Hold

-----------------------------------------------------------------------------
(* Slippage utilities *)

AtrMultiplier == 5000
MaxSlippageRate == 100

calculateDynamicSlippageRate(b, atr, baseSlippageRate, atrMultiplier) ==
    IF Falsy(atr) \/ atr <= 0 THEN baseSlippageRate
    ELSE LET volatilityAdjustment == (atr * atrMultiplier) \div b.close
             dynamicSlippageRate == baseSlippageRate + volatilityAdjustment
         IN Min(dynamicSlippageRate, MaxSlippageRate)

applySlippage(price, slippageRate, side) ==
    IF side = "LONG"
    THEN (price * (RateScale - slippageRate)) \div RateScale
    ELSE (price * (RateScale + slippageRate)) \div RateScale

calculateSlippageAmount(price, priceWithSlippage, size) ==
    (Abs(priceWithSlippage - price) * size) \div SizeScale

-----------------------------------------------------------------------------
(* One onBar execution threads a frame through the calls it makes: the     *)
(* instance's store and logger, plus a record of the calls made.           *)

NewFrame(s, equity, tr) ==
    [store |-> s, currentEquity |-> equity, trades |-> tr, threw |-> FALSE,
     dispatches |-> <<>>, calls |-> <<>>, riskResult |-> Null, signal |-> Null]

\* positionStore.dispatch(action) called from inside onBar
Do(f, action) ==
    LET r == dispatch(f.store, action)
    IN [f EXCEPT !.store = r.store,
                 !.threw = r.threw,
                 !.dispatches = Append(@, [type |-> action.type,
                                           from |-> f.store.state]),
                 !.calls = Append(@, action.type)]

-----------------------------------------------------------------------------
(* TradeLogger *)

getCurrentEquity(f) == f.currentEquity

\* variant: equity grows by the gross pnl while the record keeps the net pnl
logExitGrossEquity(f, b, position, reason, options) ==
    LET entryValue == (position.entryPrice * position.size) \div SizeScale
        actualExitPrice == IF Falsy(options.exitPrice) THEN b.close ELSE options.exitPrice
        exitValue == (actualExitPrice * position.size) \div SizeScale
        pnl == IF position.side = "LONG" THEN exitValue - entryValue
               ELSE entryValue - exitValue
        commission == IF Falsy(options.commission) THEN 0 ELSE options.commission
        slippage == IF Falsy(options.slippage) THEN 0 ELSE options.slippage
        finalPnL == pnl - commission - slippage
        equityAfter == f.currentEquity + pnl
        trade == [side |-> position.side,
                  entryPrice |-> position.entryPrice,
                  entryTime |-> position.entryTime,
                  exitPrice |-> actualExitPrice,
                  exitTime |-> b.closeTime,
                  size |-> position.size,
                  pnl |-> finalPnL,
                  commission |-> commission,
                  slippage |-> slippage,
                  equityAfterTrade |-> equityAfter,
                  reason |-> reason]
    IN [f EXCEPT !.currentEquity = equityAfter,
                 !.trades = Append(@, trade),
                 !.calls = Append(@, "logExit")]

logExit(f, b, position, reason, options) ==
    LET entryValue == (position.entryPrice * position.size) \div SizeScale
        actualExitPrice == IF Falsy(options.exitPrice) THEN b.close ELSE options.exitPrice
        exitValue == (actualExitPrice * position.size) \div SizeScale
        pnl == IF position.side = "LONG" THEN exitValue - entryValue
               ELSE entryValue - exitValue
        commission == IF Falsy(options.commission) THEN 0 ELSE options.commission
        slippage == IF Falsy(options.slippage) THEN 0 ELSE options.slippage
        finalPnL == pnl - commission - slippage
        equityAfter == f.currentEquity + finalPnL
        trade == [side |-> position.side,
                  entryPrice |-> position.entryPrice,
                  entryTime |-> position.entryTime,
                  exitPrice |-> actualExitPrice,
                  exitTime |-> b.closeTime,
                  size |-> position.size,
                  pnl |-> finalPnL,
                  commission |-> commission,
                  slippage |-> slippage,
                  equityAfterTrade |-> equityAfter,
                  reason |-> reason]
    IN [f EXCEPT !.currentEquity = equityAfter,
                 !.trades = Append(@, trade),
                 !.calls = Append(@, "logExit")]

logEntry(f, b, action) == [f EXCEPT !.calls = Append(@, "logEntry")]

-----------------------------------------------------------------------------
(* BacktestEngine (IEngine) *)

executeEntry(f, b, signal, ltfIndicator) ==
    IF signal.side = "undefined" \/ signal.side # "LONG" THEN f
    ELSE LET entrySlippageRate ==
                 calculateDynamicSlippageRate(b, ltfIndicator.atr,
                                              config.execution.slippageRate, AtrMultiplier)
             entryPrice == IF signal.side = "LONG"
                           THEN (b.close * (RateScale + entrySlippageRate)) \div RateScale
                           ELSE (b.close * (RateScale - entrySlippageRate)) \div RateScale
             equity == getCurrentEquity(f)
             sized == calculatePositionSize(entryPrice, equity,
                                            config.risk.maxRiskPerTrade,
                                            config.risk.initialStopPct)
             reason == IF signal.reason = "undefined"
                       THEN "HTF_BULL_TREND_CONFIRMED" ELSE signal.reason
             f1 == Do(f, [type |-> "OPEN_POSITION",
                          payload |-> [side |-> signal.side,
                                       entryPrice |-> entryPrice,
                                       stopLoss |-> sized.stopLoss,
                                       size |-> sized.size,
                                       entryTime |-> b.closeTime],
                          reason |-> reason])
         IN IF f1.threw THEN f1
            ELSE logEntry(f1, b, [action |-> "ENTER", side |-> signal.side,
                                  reason |-> reason])

\* variant: the position is closed without passing through CLOSING
executeExitWithoutStartClosing(f, b, reason, ltfIndicator) ==
    LET position == get(f.store)
    IN IF position = Null THEN f
       ELSE LET entryValue == (position.entryPrice * position.size) \div SizeScale
                exitValue == (b.close * position.size) \div SizeScale
                commission == ((entryValue + exitValue) * config.execution.commissionRate)
                              \div RateScale
                exitSlippageRate ==
                    calculateDynamicSlippageRate(b, ltfIndicator.atr,
                                                 config.execution.slippageRate,
                                                 AtrMultiplier)
                exitPriceWithSlippage == applySlippage(b.close, exitSlippageRate,
                                                       position.side)
                slippage == calculateSlippageAmount(b.close, exitPriceWithSlippage,
                                                    position.size)
                f1 == f
                f2 == Do(f1, [type |-> "CLOSE_POSITION",
                              payload |-> [exitPrice |-> exitPriceWithSlippage,
                                           exitTime |-> b.closeTime],
                              reason |-> reason])
            IN logExit(f2, b, position, reason,
                       [commission |-> commission, slippage |-> slippage,
                        exitPrice |-> exitPriceWithSlippage])

\* variant: the position is closed but no trade is logged
executeExitUnlogged(f, b, reason, ltfIndicator) ==
    LET position == get(f.store)
    IN IF position = Null THEN f
       ELSE LET entryValue == (position.entryPrice * position.size) \div SizeScale
                exitValue == (b.close * position.size) \div SizeScale
                commission == ((entryValue + exitValue) * config.execution.commissionRate)
                              \div RateScale
                exitSlippageRate ==
                    calculateDynamicSlippageRate(b, ltfIndicator.atr,
                                                 config.execution.slippageRate,
                                                 AtrMultiplier)
                exitPriceWithSlippage == applySlippage(b.close, exitSlippageRate,
                                                       position.side)
                slippage == calculateSlippageAmount(b.close, exitPriceWithSlippage,
                                                    position.size)
                f1 == Do(f, [type |-> "START_CLOSING"])
                f2 == Do(f1, [type |-> "CLOSE_POSITION",
                              payload |-> [exitPrice |-> exitPriceWithSlippage,
                                           exitTime |-> b.closeTime],
                              reason |-> reason])
            IN f2

executeExit(f, b, reason, ltfIndicator) ==
    LET position == get(f.store)
    IN IF position = Null THEN f
       ELSE LET entryValue == (position.entryPrice * position.size) \div SizeScale
                exitValue == (b.close * position.size) \div SizeScale
                commission == ((entryValue + exitValue) * config.execution.commissionRate)
                              \div RateScale
                exitSlippageRate ==
                    calculateDynamicSlippageRate(b, ltfIndicator.atr,
                                                 config.execution.slippageRate,
                                                 AtrMultiplier)
                exitPriceWithSlippage == applySlippage(b.close, exitSlippageRate,
                                                       position.side)
                slippage == calculateSlippageAmount(b.close, exitPriceWithSlippage,
                                                    position.size)
                f1 == Do(f, [type |-> "START_CLOSING"])
                f2 == Do(f1, [type |-> "CLOSE_POSITION",
                              payload |-> [exitPrice |-> exitPriceWithSlippage,
                                           exitTime |-> b.closeTime],
                              reason |-> reason])
            IN logExit(f2, b, position, reason,
                       [commission |-> commission, slippage |-> slippage,
                        exitPrice |-> exitPriceWithSlippage])

-----------------------------------------------------------------------------
(* StrategyInstanceRunner *)

\* 1. risk management: lines 34-67 of onBar
riskPhase(f, b, ltfIndicator, position, positionState) ==
    IF position # Null /\ positionState = "OPEN"
    THEN Const({
           LET f0 == [f EXCEPT !.riskResult = riskResult,
                               !.calls = Append(@, "riskManager")]
               f1 == IF riskResult.stopLossUpdate # Null
                     THEN Do(f0, [type |-> "UPDATE_STOP",
                                  payload |-> riskResult.stopLossUpdate,
                                  reason |-> "TRAILING_STOP"])
                     ELSE f0
           IN IF riskResult.decision.action = "EXIT"
              THEN [frame |-> executeExit(f1, b,
                                  IF riskResult.decision.reason = "undefined"
                                  THEN "STOP_LOSS" ELSE riskResult.decision.reason,
                                  ltfIndicator),
                    returned |-> TRUE]
              ELSE [frame |-> f1, returned |-> FALSE]
           : riskResult \in
               {riskManager(position,
                            [close |-> b.close, high |-> b.high, low |-> b.low],
                            ltfIndicator, config)} })
    ELSE [frame |-> f, returned |-> FALSE]

\* 2. strategy decision: lines 69-104 of onBar
strategyPhase(f, b, htfIndicator, ltfIndicator, position, positionState) ==
    LET signal == trendStrategy([bar |-> b, htfIndicator |-> htfIndicator,
                               ltfIndicator |-> ltfIndicator,
                               positionState |-> positionState])
        f0 == [f EXCEPT !.signal = signal, !.calls = Append(@, "strategy")]
    IN IF signal.type = "EXIT" /\ position # Null /\ positionState = "OPEN"
       THEN executeExit(f0, b,
                        IF signal.reason = "undefined" THEN "TREND_INVALIDATED"
                        ELSE signal.reason,
                        ltfIndicator)
       ELSE IF signal.type = "ENTRY" /\ positionState = "FLAT"
       THEN executeEntry(f0, b, signal, ltfIndicator)
       ELSE f0

\* variant: no return after a risk exit, the strategy sees the fresh state
onBarContinueAfterExit(f, b, htfIndicator, ltfIndicator) ==
    Const({ strategyPhase(r.frame, b, htfIndicator, ltfIndicator,
                          get(r.frame.store), getState(r.frame.store))
            : r \in {riskPhase(f, b, ltfIndicator, get(f.store), getState(f.store))} })

\* variant: the strategy is consulted before the risk manager
onBarStrategyFirst(f, b, htfIndicator, ltfIndicator) ==
    LET position == get(f.store)
        positionState == getState(f.store)
    IN Const({ riskPhase(g, b, ltfIndicator, position, positionState).frame
               : g \in {strategyPhase(f, b, htfIndicator, ltfIndicator,
                                      position, positionState)} })

onBar(f, b, htfIndicator, ltfIndicator) ==
    LET position == get(f.store)
        positionState == getState(f.store)
    IN Const({ IF r.returned THEN r.frame
               ELSE strategyPhase(r.frame, b, htfIndicator, ltfIndicator,
                                  position, positionState)
               : r \in {riskPhase(f, b, ltfIndicator, position, positionState)} })

-----------------------------------------------------------------------------
(* Inputs: what the bar provider and the indicator builders hand over *)

MaxBars == 4

LtfIntervalMs == 60 * 60 * 1000

BarShapes ==
    { [low |-> 9850,  close |-> 9950,  high |-> 10000],
      [low |-> 9950,  close |-> 10000, high |-> 10050],
      [low |-> 10010, close |-> 10060, high |-> 10100],
      [low |-> 10050, close |-> 10150, high |-> 10200],
      [low |-> 10100, close |-> 10250, high |-> 10300],
      [low |-> 10000, close |-> 10450, high |-> 10500],
      [low |-> 10300, close |-> 10450, high |-> 10500] }

Kline(i, shape) ==
    [openTime |-> i * LtfIntervalMs,
     closeTime |-> (i + 1) * LtfIntervalMs - 1,
     open |-> shape.low, high |-> shape.high, low |-> shape.low,
     close |-> shape.close, volume |-> 1]

HTFIndicators ==
    { [ema50 |-> 10000, ema200 |-> 9500, adx |-> 30],
      [ema50 |-> 9500, ema200 |-> 10000, adx |-> 30] }

AdxSeries ==
    { UndefinedSeries, <<22, 20, 19>>, <<22, 20, 19, 18>>, <<35, 37, 40, 42>> }

LTFIndicators ==
    [ema20 : {Undefined, 10100, 10350},
     ema50 : {10050, 10300},
     adx : {30},
     adx_1h_series : AdxSeries,
     atr : {Undefined},
     donchianHigh : {9990}]

-----------------------------------------------------------------------------
(* The instance and its bar loop *)

Init ==
    /\ store = NewStore
    /\ currentEquity = config.account.initialCapital
    /\ trades = <<>>
    /\ barIndex = 0
    /\ phase = "idle"
    /\ bar = Null
    /\ htf = Null
    /\ ltf = Null
    /\ trace = Null
    /\ dispatched = Null
    /\ prevStore = NewStore
    /\ threw = FALSE
    /\ provider = Null
    /\ paper = Null

\* the bar provider yields the next closed LTF bar with its indicators
FetchBar ==
    /\ phase = "idle"
    /\ barIndex < MaxBars
    /\ \E shape \in BarShapes, h \in HTFIndicators, l \in LTFIndicators :
          /\ bar' = Kline(barIndex, shape)
          /\ htf' = h
          /\ ltf' = l
    /\ barIndex' = barIndex + 1
    /\ phase' = "pending"
    /\ UNCHANGED <<store, currentEquity, trades, trace, dispatched, prevStore, threw, feedVars>>

\* runner.onBar(bar, htfIndicator, ltfIndicator), atomically
ExecuteOnBar ==
    /\ phase = "pending"
    /\ LET f == onBar(NewFrame(store, currentEquity, trades), bar, htf, ltf)
       IN /\ store' = f.store
          /\ currentEquity' = f.currentEquity
          /\ trades' = f.trades
          /\ threw' = f.threw
          /\ trace' = [prevStore |-> store,
                       dispatches |-> f.dispatches,
                       calls |-> f.calls,
                       riskResult |-> f.riskResult,
                       signal |-> f.signal]
    /\ phase' = "done"
    /\ UNCHANGED <<barIndex, bar, htf, ltf, dispatched, prevStore, feedVars>>

\* the loop moves on to the next time point (an error in onBar is logged,
\* not rethrown)
NextBar ==
    /\ phase = "done"
    /\ phase' = "idle"
    /\ bar' = Null
    /\ htf' = Null
    /\ ltf' = Null
    /\ trace' = Null
    /\ UNCHANGED <<store, currentEquity, trades, barIndex, dispatched, prevStore, threw, feedVars>>

Next == FetchBar \/ ExecuteOnBar \/ NextBar

Spec == Init /\ [][Next]_vars

-----------------------------------------------------------------------------
(* The store driven directly through its public dispatch, by any caller *)

OpenPayloads ==
    { [side |-> "LONG", entryPrice |-> e,
       stopLoss |-> calculatePositionSize(e, InitialCapital, MaxRiskPerTrade,
                                          InitialStopPct).stopLoss,
       size |-> calculatePositionSize(e, InitialCapital, MaxRiskPerTrade,
                                      InitialStopPct).size,
       entryTime |-> LtfIntervalMs - 1] : e \in {10005, 10155} }

UpdatePayloads ==
    [stopLoss : {Undefined, 9800, 10100},
     trailingStop : {Undefined, 10100},
     isTrailingActive : {"undefined", "true"},
     maxUnrealizedR : {Undefined, 150},
     trailingMode : {"undefined", "EMA50"}]

Call(action) ==
    LET r == dispatch(store, action)
    IN /\ store' = r.store
       /\ threw' = r.threw
       /\ dispatched' = action
       /\ prevStore' = store
       /\ UNCHANGED <<currentEquity, trades, barIndex, phase, bar, htf, ltf, trace, feedVars>>

DispatchOpenPosition ==
    \E p \in OpenPayloads :
        Call([type |-> "OPEN_POSITION", payload |-> p,
              reason |-> "HTF_BULL_BREAKOUT_CONFIRMED"])

DispatchUpdateStop ==
    \E p \in UpdatePayloads :
        Call([type |-> "UPDATE_STOP", payload |-> p, reason |-> "TRAILING_STOP"])

DispatchStartClosing == Call([type |-> "START_CLOSING"])

DispatchClosePosition ==
    Call([type |-> "CLOSE_POSITION",
          payload |-> [exitPrice |-> 10000, exitTime |-> 2 * LtfIntervalMs - 1],
          reason |-> "MANUAL_EXIT"])

StoreNext ==
    \/ DispatchOpenPosition
    \/ DispatchUpdateStop
    \/ DispatchStartClosing
    \/ DispatchClosePosition

SpecStore == Init /\ [][StoreNext]_vars

-----------------------------------------------------------------------------
(* Properties of the bar runner *)

\* the bar has been processed by onBar
Processed == phase = "done" /\ trace # Null

\* the risk manager ran on the processed bar
RiskRan == Processed /\ trace.riskResult # Null

RiskExit == RiskRan /\ trace.riskResult.decision.action = "EXIT"

OpenDispatches ==
    {i \in 1..Len(trace.dispatches) : trace.dispatches[i].type = "OPEN_POSITION"}

\* the strategy's entry conditions hold on the bar being processed
EntryConditionsHold ==
    trendStrategy([bar |-> bar, htfIndicator |-> htf, ltfIndicator |-> ltf,
                   positionState |-> "FLAT"]).type = "ENTRY"

\* C1: a bar on which the risk manager decides EXIT never opens a new
\* position: once the bar is processed the state is FLAT, the position is
\* gone and no OPEN_POSITION was dispatched on that bar.
C1_ExitBarNeverOpens ==
    RiskExit =>
        /\ store.state = "FLAT"
        /\ store.position = Null
        /\ OpenDispatches = {}
        /\ ~threw

C1_Witness ==
    /\ RiskExit
    /\ EntryConditionsHold
    /\ store.state = "FLAT"

\* C2: at most one position per instance: the store holds a position exactly
\* when it is not FLAT, and every OPEN_POSITION the runner dispatches is
\* dispatched on a FLAT store, so it never raises and never overwrites.
C2_OpenOnlyWhenFlat ==
    /\ (store.position # Null) <=> (store.state # "FLAT")
    /\ ~threw
    /\ Processed =>
          /\ \A i \in OpenDispatches : trace.dispatches[i].from = "FLAT"
          /\ Cardinality(OpenDispatches) <= 1
          /\ trace.prevStore.state # "FLAT" => OpenDispatches = {}

C2_Witness ==
    /\ Processed
    /\ trace.prevStore.state = "OPEN"
    /\ EntryConditionsHold
    /\ store.state = "OPEN"
    /\ store.position.entryTime = trace.prevStore.position.entryTime
    /\ OpenDispatches = {}

\* C3: over the life of a LONG position the active stop after each bar is
\* greater than or equal to the active stop after the previous bar.
C3_ActiveStopNonDecreasing ==
    (Processed /\ trace.prevStore.state = "OPEN" /\ store.state = "OPEN") =>
        /\ store.position.side = "LONG"
        /\ store.position.entryTime = trace.prevStore.position.entryTime
        /\ store.position.stopLoss >= trace.prevStore.position.stopLoss

C3_Witness ==
    /\ Processed
    /\ trace.prevStore.state = "OPEN"
    /\ store.state = "OPEN"
    /\ trace.prevStore.position.isTrailingActive
    /\ trace.prevStore.position.stopLoss > trace.prevStore.position.entryPrice
    /\ store.position.stopLoss > trace.prevStore.position.stopLoss
    /\ "UPDATE_STOP" \in {trace.calls[i] : i \in 1..Len(trace.calls)}

PrevPos == trace.prevStore.position

ExitReasons == {"STOP_LOSS_INITIAL", "STOP_LOSS_BREAK_EVEN", "TRAILING_STOP_HIT"}

\* the trend-exhaustion predicate as the specification words it
TrendExhaustionPredicate(A, tau, k) ==
    IF Len(A) < k + 1 THEN FALSE
    ELSE /\ A[Len(A)] < tau
         /\ \A i \in (Len(A) - k + 1)..Len(A) : A[i] < A[i - 1]

\* Stage 3 at the start of the bar, and the bar's low reaches the trailing stop
Stage3Touch ==
    /\ RiskRan
    /\ PrevPos.isTrailingActive
    /\ PrevPos.trailingStop # Undefined
    /\ bar.low <= PrevPos.trailingStop

\* the EMA the trailing stop follows once the bar has been processed
SelectedEma ==
    IF store.position.trailingMode = "EMA50" THEN ltf.ema50 ELSE ltf.ema20

\* C5: whenever trailing is active the trailing stop is defined and the
\* active stop equals it and is at least the entry price; the trailing stop
\* of a position exited with TRAILING_STOP_HIT is at least its entry price.
C5_TrailingStopAtLeastEntry ==
    /\ (store.position # Null /\ store.position.isTrailingActive) =>
          /\ store.position.trailingStop # Undefined
          /\ store.position.stopLoss = store.position.trailingStop
          /\ store.position.trailingStop >= store.position.entryPrice
    /\ (RiskExit /\ trace.riskResult.decision.reason = "TRAILING_STOP_HIT") =>
          /\ PrevPos.trailingStop # Undefined
          /\ PrevPos.trailingStop >= PrevPos.entryPrice
          /\ trades[Len(trades)].reason = "TRAILING_STOP_HIT"

C5_Witness ==
    /\ RiskExit
    /\ trace.riskResult.decision.reason = "TRAILING_STOP_HIT"
    /\ PrevPos.isTrailingActive
    /\ PrevPos.trailingStop > PrevPos.entryPrice
    /\ store.state = "FLAT"

\* C6: a position that is not trailing has its active stop at the initial
\* stop (Stage 1) or at the entry price (Stage 2), and nowhere else.
C6_NonTrailingStopValues ==
    (store.position # Null /\ ~store.position.isTrailingActive) =>
        /\ store.position.stopLoss \in {store.position.initialStopLoss,
                                        store.position.entryPrice}
        /\ getPositionStage(store.position) = 1
              <=> store.position.stopLoss = store.position.initialStopLoss
        /\ getPositionStage(store.position) = 2
              <=> store.position.stopLoss = store.position.entryPrice

C6_Witness ==
    /\ Processed
    /\ trace.prevStore.state = "OPEN"
    /\ PrevPos.stopLoss = PrevPos.initialStopLoss
    /\ store.state = "OPEN"
    /\ ~store.position.isTrailingActive
    /\ store.position.stopLoss = store.position.entryPrice

\* C7: in Stage 3, on a bar whose low reaches the trailing stop while the
\* trend-exhaustion predicate on the ADX history is false, the risk manager
\* returns NONE, the position stays open, and the trailing stop advances to
\* the selected EMA when that EMA is defined and above it.
C7_TouchWithoutExhaustionHolds ==
    (/\ Stage3Touch
     /\ ltf.adx_1h_series # UndefinedSeries
     /\ ~TrendExhaustionPredicate(ltf.adx_1h_series, TrendExhaustADX, TrendExhaustBars)) =>
        /\ trace.riskResult.decision.action = "NONE"
        /\ store.state = "OPEN"
        /\ "logExit" \notin {trace.calls[i] : i \in 1..Len(trace.calls)}
        /\ store.position.trailingStop =
              IF SelectedEma # Undefined /\ SelectedEma > PrevPos.trailingStop
              THEN SelectedEma ELSE PrevPos.trailingStop
        /\ store.position.stopLoss = store.position.trailingStop

C7_Witness ==
    /\ Stage3Touch
    /\ ltf.adx_1h_series # UndefinedSeries
    /\ ~TrendExhaustionPredicate(ltf.adx_1h_series, TrendExhaustADX, TrendExhaustBars)
    /\ trace.riskResult.decision.action = "NONE"
    /\ store.state = "OPEN"
    /\ store.position.trailingStop = SelectedEma
    /\ store.position.trailingStop > PrevPos.trailingStop

\* C8 (as stated): in Stage 3 with k = 3 and threshold 20, a bar whose low is
\* below the trailing stop and whose ADX history is [22, 20, 19] makes the risk
\* manager exit with reason TRAILING_STOP_HIT.
C8_ShortHistoryExits ==
    (/\ Stage3Touch
     /\ bar.low < PrevPos.trailingStop
     /\ ltf.adx_1h_series = <<22, 20, 19>>) =>
        /\ trace.riskResult.decision.action = "EXIT"
        /\ trace.riskResult.decision.reason = "TRAILING_STOP_HIT"

\* C8 (amended): with k = 3 and threshold 20, a Stage-3 bar whose low is below
\* the trailing stop does not exit on the ADX history [22, 20, 19], which is
\* shorter than k + 1: the risk manager returns NONE and the position stays
\* open; on the history [22, 20, 19, 18] it exits with TRAILING_STOP_HIT.
C8_ExitNeedsFourValues ==
    (Stage3Touch /\ bar.low < PrevPos.trailingStop) =>
        /\ ltf.adx_1h_series = <<22, 20, 19>> =>
              /\ trace.riskResult.decision.action = "NONE"
              /\ store.state = "OPEN"
        /\ ltf.adx_1h_series = <<22, 20, 19, 18>> =>
              /\ trace.riskResult.decision.action = "EXIT"
              /\ trace.riskResult.decision.reason = "TRAILING_STOP_HIT"
              /\ store.state = "FLAT"

C8_Witness ==
    /\ Stage3Touch
    /\ bar.low < PrevPos.trailingStop
    /\ ltf.adx_1h_series = <<22, 20, 19>>
    /\ trace.riskResult.decision.action = "NONE"
    /\ store.state = "OPEN"

\* C9: the reason of an EXIT is fixed by the stage at the start of the bar:
\* Stage 1 with low <= active stop gives STOP_LOSS_INITIAL, Stage 2 with
\* low <= active stop gives STOP_LOSS_BREAK_EVEN wherever the bar closes,
\* TRAILING_STOP_HIT comes only from Stage 3 and Stage 3 gives nothing else;
\* a bar records at most one exit.
C9_ExitReasonFixedByStage ==
    RiskRan =>
        LET d == trace.riskResult.decision
            stage1 == ~PrevPos.isTrailingActive
                      /\ PrevPos.stopLoss < PrevPos.entryPrice
            stage2 == ~PrevPos.isTrailingActive
                      /\ PrevPos.stopLoss >= PrevPos.entryPrice
        IN /\ (stage1 /\ bar.low <= PrevPos.stopLoss) =>
                 (d.action = "EXIT" /\ d.reason = "STOP_LOSS_INITIAL")
           /\ (stage2 /\ bar.low <= PrevPos.stopLoss) =>
                 (d.action = "EXIT" /\ d.reason = "STOP_LOSS_BREAK_EVEN")
           /\ d.action = "EXIT" =>
                 /\ d.reason \in ExitReasons
                 /\ d.reason = "STOP_LOSS_INITIAL" <=> stage1
                 /\ d.reason = "STOP_LOSS_BREAK_EVEN" <=> stage2
                 /\ d.reason = "TRAILING_STOP_HIT" <=> PrevPos.isTrailingActive
                 /\ trades[Len(trades)].reason = d.reason
           /\ Cardinality({i \in 1..Len(trace.calls) : trace.calls[i] = "logExit"}) <= 1

C9_Witness ==
    /\ RiskExit
    /\ trace.riskResult.decision.reason = "STOP_LOSS_BREAK_EVEN"
    /\ ~PrevPos.isTrailingActive
    /\ PrevPos.stopLoss = PrevPos.entryPrice
    /\ calculateUnrealizedR(PrevPos, bar.close) >= TrailingActivationR

-----------------------------------------------------------------------------
(* Properties of the store under direct dispatch *)

\* C4: an UPDATE_STOP in state OPEN whose stop is lower than the position's
\* current active stop is rejected and leaves the position unchanged.
C4_UpdateStopRejectsDecrease ==
    (/\ dispatched # Null
     /\ dispatched.type = "UPDATE_STOP"
     /\ prevStore.state = "OPEN"
     /\ dispatched.payload.stopLoss # Undefined
     /\ dispatched.payload.stopLoss < prevStore.position.stopLoss) =>
        store = prevStore

\* C10: OPEN_POSITION dispatched while the state is OPEN or CLOSING raises an
\* error and leaves the state and the existing position unchanged.
C10_OpenWhileNotFlatThrows ==
    (/\ dispatched # Null
     /\ dispatched.type = "OPEN_POSITION"
     /\ prevStore.state # "FLAT") =>
        /\ threw
        /\ store.state = prevStore.state
        /\ store.position = prevStore.position

C10_Witness ==
    /\ dispatched # Null
    /\ dispatched.type = "OPEN_POSITION"
    /\ prevStore.state = "CLOSING"
    /\ dispatched.payload.entryPrice # prevStore.position.entryPrice
    /\ threw
    /\ store = prevStore


\* C11: UPDATE_STOP or CLOSE_POSITION dispatched while FLAT raises no error
\* and changes nothing: the state stays FLAT and no position exists.
C11_IgnoredWhileFlat ==
    (/\ dispatched # Null
     /\ dispatched.type \in {"UPDATE_STOP", "CLOSE_POSITION"}
     /\ prevStore.state = "FLAT") =>
        /\ ~threw
        /\ store = prevStore
        /\ store.state = "FLAT"
        /\ store.position = Null

C11_Witness ==
    /\ dispatched # Null
    /\ dispatched.type = "UPDATE_STOP"
    /\ dispatched.payload.stopLoss # Undefined
    /\ prevStore.state = "FLAT"
    /\ ~threw
    /\ store = NewStore

\* C12: while CLOSING the position stays readable, and UPDATE_STOP and
\* START_CLOSING (and a refused OPEN_POSITION) leave every position field and
\* the state unchanged; only CLOSE_POSITION changes them.
C12_ClosingAcceptsOnlyClose ==
    /\ store.state = "CLOSING" => get(store) # Null
    /\ (dispatched # Null /\ prevStore.state = "CLOSING") =>
          IF dispatched.type = "CLOSE_POSITION"
          THEN store = NewStore
          ELSE /\ store.state = "CLOSING"
               /\ store.position = prevStore.position
               /\ dispatched.type \in {"UPDATE_STOP", "START_CLOSING"} => ~threw

C12_Witness ==
    /\ dispatched # Null
    /\ dispatched.type = "UPDATE_STOP"
    /\ prevStore.state = "CLOSING"
    /\ dispatched.payload.stopLoss # Undefined
    /\ dispatched.payload.stopLoss # prevStore.position.stopLoss
    /\ store = prevStore


-----------------------------------------------------------------------------
(* More properties of the bar runner *)

\* the store state reached by the i-th dispatch of the processed bar
StateAfterDispatch(i) ==
    IF i < Len(trace.dispatches) THEN trace.dispatches[i + 1].from ELSE store.state

FsmCycle ==
    { <<"FLAT", "OPEN_POSITION", "OPEN">>,
      <<"OPEN", "UPDATE_STOP", "OPEN">>,
      <<"OPEN", "START_CLOSING", "CLOSING">>,
      <<"CLOSING", "CLOSE_POSITION", "FLAT">> }

\* C13: in a run of the bar runner the position state follows the cycle
\* FLAT -> OPEN -> CLOSING -> FLAT: every dispatch is one step of that cycle
\* (or a stop update in OPEN), CLOSE_POSITION always comes right after a
\* START_CLOSING that was issued from OPEN, and a bar never ends in CLOSING.
C13_StateFollowsCycle ==
    /\ phase # "pending" => store.state \in {"FLAT", "OPEN"}
    /\ Processed =>
          /\ \A i \in 1..Len(trace.dispatches) :
                <<trace.dispatches[i].from, trace.dispatches[i].type,
                  StateAfterDispatch(i)>> \in FsmCycle
          /\ \A i \in 1..Len(trace.dispatches) :
                trace.dispatches[i].type = "CLOSE_POSITION" =>
                    /\ i > 1
                    /\ trace.dispatches[i - 1].type = "START_CLOSING"
                    /\ trace.dispatches[i - 1].from = "OPEN"
          /\ Len(trace.dispatches) > 0 =>
                trace.dispatches[1].from = trace.prevStore.state

C13_Witness ==
    /\ Processed
    /\ trace.prevStore.state = "OPEN"
    /\ Len(trace.dispatches) = 2
    /\ trace.dispatches[1] = [type |-> "START_CLOSING", from |-> "OPEN"]
    /\ trace.dispatches[2] = [type |-> "CLOSE_POSITION", from |-> "CLOSING"]
    /\ store = NewStore


-----------------------------------------------------------------------------
(* The strategy function applied to arbitrary inputs *)

StrategyBars ==
    { [low |-> 9950, close |-> 10000, high |-> 10050],
      [low |-> 9950, close |-> 10001, high |-> 10050] }

StrategyHTFIndicators ==
    {Null} \cup [ema50 : {Undefined, 9400, 10000},
                 ema200 : {Undefined, 9500},
                 adx : {Undefined, 20, 21}]

StrategyLTFIndicators ==
    {Null} \cup [ema20 : {Undefined, 10050, 10100},
                 ema50 : {Undefined, 10050},
                 adx : {Undefined, 25, 26},
                 adx_1h_series : {UndefinedSeries},
                 atr : {Undefined},
                 donchianHigh : {Undefined, 10000}]

StrategyStores ==
    {NewStore}
    \cup { [state |-> st,
            position |-> OpenPosition(NewStore,
                            [type |-> "OPEN_POSITION", payload |-> p,
                             reason |-> "HTF_BULL_BREAKOUT_CONFIRMED"]).store.position]
           : st \in {"OPEN", "CLOSING"}, p \in OpenPayloads }

InitStrategy ==
    /\ store \in StrategyStores
    /\ currentEquity = config.account.initialCapital
    /\ trades = <<>>
    /\ barIndex = 1
    /\ phase = "pending"
    /\ bar \in {Kline(0, shape) : shape \in StrategyBars}
    /\ htf \in StrategyHTFIndicators
    /\ ltf \in StrategyLTFIndicators
    /\ trace = Null
    /\ dispatched = Null
    /\ prevStore = NewStore
    /\ threw = FALSE
    /\ provider = Null
    /\ paper = Null

\* strategyFn({bar, htfIndicator, ltfIndicator, positionState})
EvaluateStrategy ==
    /\ phase = "pending"
    /\ trace' = [prevStore |-> store,
                 dispatches |-> <<>>,
                 calls |-> <<"strategy">>,
                 riskResult |-> Null,
                 signal |-> trendStrategy([bar |-> bar, htfIndicator |-> htf,
                                           ltfIndicator |-> ltf,
                                           positionState |-> getState(store)])]
    /\ phase' = "done"
    /\ UNCHANGED <<store, currentEquity, trades, barIndex, bar, htf, ltf,
                   dispatched, prevStore, threw, feedVars>>

StrategyNext == EvaluateStrategy

SpecStrategy == InitStrategy /\ [][StrategyNext]_vars

EntrySignal ==
    [type |-> "ENTRY", side |-> "LONG", reason |-> "HTF_BULL_BREAKOUT_CONFIRMED"]

\* the entry conditions as the specification lists them
SpecEntryConditions ==
    /\ store.state = "FLAT"
    /\ htf # Null
    /\ ltf # Null
    /\ htf.ema50 # Undefined /\ htf.ema200 # Undefined /\ htf.adx # Undefined
    /\ ltf.ema20 # Undefined /\ ltf.ema50 # Undefined /\ ltf.adx # Undefined
    /\ ltf.donchianHigh # Undefined
    /\ htf.ema50 > htf.ema200
    /\ htf.adx > 20
    /\ ltf.adx > 25
    /\ ltf.ema20 > ltf.ema50
    /\ bar.close > ltf.donchianHigh

\* C14: the strategy returns ENTRY(LONG, HTF_BULL_BREAKOUT_CONFIRMED) exactly
\* when the state is FLAT, every required field is defined, the HTF regime is
\* BULL, ltf.adx > 25, ema20 > ema50 and close > donchianHigh; on every other
\* input it returns HOLD, and it never returns EXIT.
C14_EntryIffAllConditions ==
    (phase = "done" /\ trace # Null /\ trace.signal # Null) =>
        /\ trace.signal = IF SpecEntryConditions THEN EntrySignal ELSE Hold
        /\ trace.signal.type # "EXIT"

C14_Witness ==
    /\ phase = "done"
    /\ trace # Null
    /\ trace.signal = EntrySignal
    /\ htf.adx = 21
    /\ ltf.adx = 26
    /\ bar.close = ltf.donchianHigh + 1


-----------------------------------------------------------------------------
(* Time alignment service: HTF indicators for LTF bars *)

MaxHtfBars == 3
MaxLtfWindow == 2

HtfIntervalMs == 4 * LtfIntervalMs

\* a JavaScript `undefined` where an object is expected
UndefinedValue == [undefined |-> TRUE]

\* arr[i] of a JavaScript array (1-based here): undefined out of range
ArrayAt(arr, i) == IF i \in 1..Len(arr) THEN arr[i] ELSE UndefinedValue

UndefinedHTFIndicator == [ema50 |-> Undefined, ema200 |-> Undefined, adx |-> Undefined]

\* variant: an HTF bar counts as soon as it has opened
findHTFIndicatorForLTFBarByOpenTime(ltfBar, htfKlines, htfIndicators) ==
    LET matches == {i \in 1..Len(htfKlines) :
                      htfKlines[i].openTime <= ltfBar.openTime}
    IN IF matches = {} THEN UndefinedHTFIndicator
       ELSE htfIndicators[CHOOSE i \in matches : \A j \in matches : j <= i]

\* the loop runs from the last HTF bar down and stops at the first match
findHTFIndicatorForLTFBar(ltfBar, htfKlines, htfIndicators) ==
    LET matches == {i \in 1..Len(htfKlines) :
                      htfKlines[i].closeTime <= ltfBar.openTime}
    IN IF matches = {} THEN UndefinedHTFIndicator
       ELSE ArrayAt(htfIndicators, CHOOSE i \in matches : \A j \in matches : j <= i)

alignHTFIndicatorsToLTF(ltfKlines, htfKlines, htfIndicators) ==
    [k \in 1..Len(ltfKlines) |->
        LET ltfBar == ltfKlines[k]
            matches == {i \in 1..Len(htfKlines) :
                          htfKlines[i].closeTime <= ltfBar.openTime}
            matchedHTFIndicator ==
                IF matches = {} THEN Null
                ELSE ArrayAt(htfIndicators,
                             CHOOSE i \in matches : \A j \in matches : j <= i)
        IN \* matchedHTFIndicator || { ema50: undefined, ... }
           IF matchedHTFIndicator \in {Null, UndefinedValue}
           THEN UndefinedHTFIndicator
           ELSE matchedHTFIndicator]

\* HTF klines as the exchange returns them: consecutive, oldest first
HtfKline(i, start, closeGap) ==
    [openTime |-> start + i * HtfIntervalMs,
     closeTime |-> start + (i + 1) * HtfIntervalMs - closeGap,
     open |-> 10000, high |-> 10100, low |-> 9900, close |-> 10000,
     volume |-> 1]

HtfIndicatorAt(i) == [ema50 |-> 10000 + i, ema200 |-> 9500, adx |-> 30]

AlignerFeeds ==
    { [htfKlines |-> IF n = 0 THEN <<>>
                     ELSE [i \in 1..n |-> HtfKline(i - 1, start, closeGap)],
       htfIndicators |-> IF n = 0 THEN <<>>
                         ELSE [i \in 1..n |-> HtfIndicatorAt(i)],
       ltfKlines |-> [k \in 1..m |->
                        Kline(first + k - 1,
                              [low |-> 9950, close |-> 10000, high |-> 10050])]]
      : n \in 0..MaxHtfBars, start \in {0, 2 * LtfIntervalMs},
        closeGap \in {0, 1}, first \in {0, 3, 4, 5, 8, 11},
        m \in 1..MaxLtfWindow }

InitAligner ==
    /\ store = NewStore
    /\ currentEquity = config.account.initialCapital
    /\ trades = <<>>
    /\ barIndex = 0
    /\ phase = "pending"
    /\ bar = Null
    /\ htf = Null
    /\ ltf = Null
    /\ trace = Null
    /\ dispatched = Null
    /\ prevStore = NewStore
    /\ threw = FALSE
    /\ provider \in AlignerFeeds
    /\ paper = Null

FindHTFIndicator ==
    /\ phase = "pending"
    /\ \E k \in 1..Len(provider.ltfKlines) :
          /\ bar' = provider.ltfKlines[k]
          /\ htf' = findHTFIndicatorForLTFBar(provider.ltfKlines[k],
                                              provider.htfKlines,
                                              provider.htfIndicators)
    /\ phase' = "done"
    /\ UNCHANGED <<store, currentEquity, trades, barIndex, ltf, trace,
                   dispatched, prevStore, threw, feedVars>>

AlignAll ==
    /\ phase = "pending"
    /\ trace' = [aligned |-> alignHTFIndicatorsToLTF(provider.ltfKlines,
                                                     provider.htfKlines,
                                                     provider.htfIndicators)]
    /\ phase' = "aligned"
    /\ UNCHANGED <<store, currentEquity, trades, barIndex, bar, htf, ltf,
                   dispatched, prevStore, threw, feedVars>>

AlignerNext == FindHTFIndicator \/ AlignAll

SpecAligner == InitAligner /\ [][AlignerNext]_vars

\* HTF bars that have closed by the time the LTF bar opens
ClosedBefore(ltfBar) ==
    {j \in 1..Len(provider.htfKlines) :
        provider.htfKlines[j].closeTime <= ltfBar.openTime}

\* the record the specification asks for
MostRecentClosed(ltfBar) ==
    IF ClosedBefore(ltfBar) = {} THEN UndefinedHTFIndicator
    ELSE provider.htfIndicators[
            CHOOSE j \in ClosedBefore(ltfBar) :
                \A k \in ClosedBefore(ltfBar) :
                    provider.htfKlines[k].closeTime <= provider.htfKlines[j].closeTime]

\* C15: for every LTF bar the aligner returns the record of the most recent
\* HTF bar whose closeTime <= the LTF bar's openTime, the all-undefined record
\* when there is none, and never the record of an HTF bar that closes later.
C15_AlignedToClosedHTF ==
    /\ phase = "done" =>
          /\ htf = MostRecentClosed(bar)
          /\ \A j \in 1..Len(provider.htfKlines) :
                provider.htfKlines[j].closeTime > bar.openTime =>
                    htf # provider.htfIndicators[j]
    /\ phase = "aligned" =>
          /\ Len(trace.aligned) = Len(provider.ltfKlines)
          /\ \A k \in 1..Len(provider.ltfKlines) :
                trace.aligned[k] = MostRecentClosed(provider.ltfKlines[k])

C15_Witness ==
    /\ phase = "done"
    /\ Cardinality(ClosedBefore(bar)) = 2
    /\ \E j \in 1..Len(provider.htfKlines) :
          /\ provider.htfKlines[j].openTime <= bar.openTime
          /\ provider.htfKlines[j].closeTime > bar.openTime
    /\ htf = provider.htfIndicators[2]


-----------------------------------------------------------------------------
(* Order of calls and accounting in the bar runner *)

CallsOf(name) == {i \in 1..Len(trace.calls) : trace.calls[i] = name}

\* C16: on every bar that starts with an OPEN position the risk manager is
\* invoked exactly once and first; the strategy, if evaluated at all, comes
\* after the risk decision and after the stop update that applies it; on a
\* bar that starts FLAT the risk manager is not invoked.
C16_RiskBeforeStrategy ==
    Processed =>
        /\ trace.prevStore.state = "OPEN" =>
              /\ Cardinality(CallsOf("riskManager")) = 1
              /\ trace.calls[1] = "riskManager"
              /\ trace.riskResult # Null
              /\ \A i \in CallsOf("strategy") :
                    \A j \in CallsOf("riskManager") \cup CallsOf("UPDATE_STOP") : j < i
              /\ trace.riskResult.stopLossUpdate # Null =>
                    CallsOf("UPDATE_STOP") = {2}
        /\ trace.prevStore.state = "FLAT" => CallsOf("riskManager") = {}
        /\ Cardinality(CallsOf("strategy")) <= 1

C16_Witness ==
    /\ Processed
    /\ trace.prevStore.state = "OPEN"
    /\ trace.calls = <<"riskManager", "UPDATE_STOP", "strategy">>
    /\ store.position.stopLoss > trace.prevStore.position.stopLoss


RECURSIVE SumPnl(_)
SumPnl(tr) == IF tr = <<>> THEN 0 ELSE tr[1].pnl + SumPnl(Tail(tr))

\* C17: the pnl of all trade records sums to the current equity minus the
\* initial capital, and each record's equityAfterTrade is the equity before
\* that trade plus the record's pnl.
C17_PnlSumsToEquityChange ==
    /\ SumPnl(trades) = currentEquity - InitialCapital
    /\ \A i \in 1..Len(trades) :
          trades[i].equityAfterTrade =
              (IF i = 1 THEN InitialCapital ELSE trades[i - 1].equityAfterTrade)
              + trades[i].pnl
    /\ trades # <<>> => trades[Len(trades)].equityAfterTrade = currentEquity

C17_Witness ==
    /\ Len(trades) = 2
    /\ trades[1].pnl < 0
    /\ trades[2].pnl > 0
    /\ currentEquity = InitialCapital + trades[1].pnl + trades[2].pnl

\* the pnl the specification prescribes for a closed position, in cents
SpecPnl(t, close, slippageRate) ==
    LET exitPrice == (close * (RateScale - slippageRate)) \div RateScale
        entryValue == (t.entryPrice * t.size) \div SizeScale
        exitValue == (exitPrice * t.size) \div SizeScale
        c == ((entryValue + exitValue) * CommissionRate) \div RateScale
    IN exitValue - entryValue - c

\* C18: each trade record's pnl is (exit_price - entry_price) * size - c with
\* exit_price = bar.close * (1 - s) and c = (entry_price * size +
\* exit_price * size) * commission_rate; the slippage cost is not deducted
\* again (up to one cent of rounding).
C18_PnlIsPriceDiffMinusCommission ==
    (Processed /\ CallsOf("logExit") # {}) =>
        LET t == trades[Len(trades)]
        IN /\ t.exitPrice = (bar.close * (RateScale - SlippageRate)) \div RateScale
           /\ Abs(t.pnl - SpecPnl(t, bar.close, SlippageRate)) <= 1

\* C19: exactly one trade record is appended for each closed position and
\* none otherwise, and records are in chronological order of exit.
C19_OneRecordPerClosedPosition ==
    [][ /\ IF store.position # Null /\ store'.position = Null
           THEN /\ Len(trades') = Len(trades) + 1
                /\ SubSeq(trades', 1, Len(trades)) = trades
                /\ trades'[Len(trades')].entryTime = store.position.entryTime
                /\ trades'[Len(trades')].exitTime = bar.closeTime
           ELSE trades' = trades
        /\ \A i \in 2..Len(trades') :
              trades'[i - 1].exitTime < trades'[i].exitTime ]_vars

C19_Witness ==
    /\ Len(trades) = 2
    /\ store.state = "FLAT"
    /\ trades[1].exitTime < trades[2].exitTime
    /\ trades[1].exitTime < trades[2].entryTime


-----------------------------------------------------------------------------
(* Paper trading: the polling loop and checkNewBarAndPrepareBarData *)

MaxPaperBars == 3
PaperHistoryBars == 6
PaperMaxKlines == 200

PaperBarShapes ==
    { [low |-> 9950, close |-> 10000, high |-> 10050],
      [low |-> 9850, close |-> 9950, high |-> 10000] }

PaperLTFIndicators ==
    [ema20 : {10100}, ema50 : {10050}, adx : {30},
     adx_1h_series : {UndefinedSeries, <<22, 20, 19, 18>>},
     atr : {Undefined}, donchianHigh : {9990}]

\* the HTF bar that contains LTF bar i
HtfIndexOf(i) == (i * LtfIntervalMs) \div HtfIntervalMs

\* variant: the buffer only grows
PushKlineUnbounded(buffer, k) == Append(buffer, k)

\* buffer.push(k); if (buffer.length > PAPER_MAX_KLINES) buffer.shift()
PushKline(buffer, k) ==
    IF Len(buffer) + 1 > PaperMaxKlines THEN Tail(Append(buffer, k))
    ELSE Append(buffer, k)

\* checkNewBarAndPrepareBarData(instanceId, symbol, config, state): the new
\* state, the bar data for onBar (or Null), and whether a fetch threw
checkNewBarAndPrepareBarData(state, prov, ltfFetchFails, htfFetchFails, ltfIndicator) ==
    IF ltfFetchFails
    THEN [state |-> state, barData |-> Null, threw |-> TRUE]
    ELSE IF prov.latestLtfBar.openTime <= state.lastLtfBarTime
    THEN [state |-> state, barData |-> Null, threw |-> FALSE]
    ELSE LET s1 == [state EXCEPT
                      !.ltfKlines = PushKline(@, prov.latestLtfBar),
                      !.lastLtfBarTime = prov.latestLtfBar.openTime]
         IN IF htfFetchFails
            THEN [state |-> s1, barData |-> Null, threw |-> TRUE]
            ELSE LET s2 == IF prov.latestHtfBar.openTime > s1.lastHtfBarTime
                           THEN [s1 EXCEPT
                                   !.htfKlines = PushKline(@, prov.latestHtfBar),
                                   !.lastHtfBarTime = prov.latestHtfBar.openTime]
                           ELSE s1
                     htfIndicators == [i \in 1..Len(s2.htfKlines) |-> HtfIndicatorAt(i)]
                 IN [state |-> s2,
                     barData |->
                        [bar |-> prov.latestLtfBar,
                         htfIndicator |->
                            findHTFIndicatorForLTFBar(prov.latestLtfBar,
                                                      s2.htfKlines, htfIndicators),
                         ltfIndicator |-> ltfIndicator],
                     threw |-> FALSE]

ProviderAt(i, shape) ==
    [ltfIndex |-> i,
     latestLtfBar |-> Kline(i, shape),
     latestHtfBar |-> HtfKline(HtfIndexOf(i), 0, 1)]

InitPaper ==
    /\ store = NewStore
    /\ currentEquity = config.account.initialCapital
    /\ trades = <<>>
    /\ barIndex = 0
    /\ phase = "polling"
    /\ bar = Null
    /\ htf = Null
    /\ ltf = Null
    /\ trace = Null
    /\ dispatched = Null
    /\ prevStore = NewStore
    /\ threw = FALSE
    /\ \E shape \in PaperBarShapes :
          /\ provider = ProviderAt(PaperHistoryBars, shape)
          /\ paper =
               [state |->
                   [htfKlines |-> [i \in 1..(HtfIndexOf(PaperHistoryBars) + 1) |->
                                      HtfKline(i - 1, 0, 1)],
                    ltfKlines |-> <<Kline(PaperHistoryBars, shape)>>,
                    lastLtfBarTime |-> Kline(PaperHistoryBars, shape).openTime,
                    lastHtfBarTime |->
                        HtfKline(HtfIndexOf(PaperHistoryBars), 0, 1).openTime],
                historyEnd |-> PaperHistoryBars,
                processed |-> {},
                pending |-> Undefined,
                lastPoll |-> Null]

\* the exchange closes an LTF bar and starts serving the next one
ProviderNewBar ==
    /\ phase = "polling"
    /\ provider.ltfIndex < paper.historyEnd + MaxPaperBars
    /\ \E shape \in PaperBarShapes :
          provider' = ProviderAt(provider.ltfIndex + 1, shape)
    /\ UNCHANGED <<store, currentEquity, trades, barIndex, phase, bar, htf, ltf,
                   trace, dispatched, prevStore, threw, paper>>

\* one pass of the polling loop for the instance: the try block and its catch
PaperPoll ==
    /\ phase = "polling"
    /\ \E ltfFetchFails \in BOOLEAN, htfFetchFails \in BOOLEAN,
          ltfIndicator \in PaperLTFIndicators :
          \E r \in {checkNewBarAndPrepareBarData(paper.state, provider,
                        ltfFetchFails, htfFetchFails, ltfIndicator)} :
             \E f \in {IF r.barData = Null
                       THEN NewFrame(store, currentEquity, trades)
                       ELSE onBar(NewFrame(store, currentEquity, trades),
                                  r.barData.bar, r.barData.htfIndicator,
                                  r.barData.ltfIndicator)} :
                /\ store' = f.store
                /\ currentEquity' = f.currentEquity
                /\ trades' = f.trades
                /\ threw' = (r.threw \/ f.threw)
                /\ bar' = IF r.barData = Null THEN Null ELSE r.barData.bar
                /\ htf' = IF r.barData = Null THEN Null ELSE r.barData.htfIndicator
                /\ ltf' = IF r.barData = Null THEN Null ELSE r.barData.ltfIndicator
                /\ trace' = [prevStore |-> store,
                             dispatches |-> f.dispatches,
                             calls |-> f.calls,
                             riskResult |-> f.riskResult,
                             signal |-> f.signal]
                /\ paper' =
                     [state |-> r.state,
                      historyEnd |-> paper.historyEnd,
                      processed |->
                         IF r.barData = Null THEN paper.processed
                         ELSE paper.processed \cup {r.barData.bar.openTime},
                      pending |->
                         IF r.threw
                         THEN IF provider.latestLtfBar.openTime \in paper.processed
                                 \/ provider.ltfIndex = paper.historyEnd
                              THEN paper.pending
                              ELSE provider.latestLtfBar.openTime
                         ELSE Undefined,
                      lastPoll |->
                         [failed |-> r.threw,
                          logged |-> (r.threw \/ f.threw),
                          latest |-> provider.latestLtfBar.openTime,
                          pendingBefore |-> paper.pending]]
    /\ UNCHANGED <<barIndex, phase, dispatched, prevStore, provider>>

PaperNext == ProviderNewBar \/ PaperPoll

SpecPaper == InitPaper /\ [][PaperNext]_vars

\* C20: in paper mode a bar-provider failure during a poll is logged, the
\* loop goes on, and the fetch is retried on the next poll, so that the new
\* LTF bar the failure concerned is still processed: when the next poll
\* meets no failure and that bar is still the latest, it has been handed to
\* onBar.
C20_FailedPollIsRetried ==
    /\ phase = "polling"
    /\ paper.lastPoll # Null =>
          /\ paper.lastPoll.failed => paper.lastPoll.logged
          /\ (/\ ~paper.lastPoll.failed
              /\ paper.lastPoll.pendingBefore # Undefined
              /\ paper.lastPoll.pendingBefore = paper.lastPoll.latest) =>
                 paper.lastPoll.latest \in paper.processed


\* the LTF bars that arrived after the historical load
NewBarTimes(buffer) ==
    { t \in { buffer[i].openTime : i \in 1..Len(buffer) } :
         t > paper.historyEnd * LtfIntervalMs }

\* C21: processing of a bar is atomic in paper mode: between polls, for
\* every bar that arrived after start-up, its buffer append, its
\* last-seen-time update and its onBar execution have either all taken
\* effect or none of them has.
C21_BarProcessedAtomically ==
    paper # Null =>
       /\ NewBarTimes(paper.state.ltfKlines) = paper.processed
       /\ \A t \in NewBarTimes(<<provider.latestLtfBar>>) :
             (paper.state.lastLtfBarTime >= t) <=> (t \in paper.processed)


-----------------------------------------------------------------------------
(* The orchestrator with any engine behind the IEngine interface *)

Engines == {"BacktestEngine", "ReopeningEngine"}

\* runner.onBar with the engine the orchestrator was constructed with.  The
\* ReopeningEngine is an IEngine whose executeEntry dispatches OPEN_POSITION a
\* second time: the programming error the store's exception exists for.
onBarWith(engine, f, b, htfIndicator, ltfIndicator) ==
    Const({ IF /\ engine = "ReopeningEngine"
               /\ g.dispatches # <<>>
               /\ g.dispatches[Len(g.dispatches)].type = "OPEN_POSITION"
            THEN executeEntry(g, b, g.signal, ltfIndicator)
            ELSE g
            : g \in {onBar(f, b, htfIndicator, ltfIndicator)} })

\* executeAllInstances for the time point: try { executeInstance } catch { logError }
ExecuteInstance ==
    /\ phase = "pending"
    /\ \E engine \in Engines :
          \E f \in {onBarWith(engine, NewFrame(store, currentEquity, trades),
                              bar, htf, ltf)} :
             /\ store' = f.store
             /\ currentEquity' = f.currentEquity
             /\ trades' = f.trades
             /\ threw' = (threw \/ f.threw)
             /\ trace' = [prevStore |-> store,
                          dispatches |-> f.dispatches,
                          calls |-> f.calls,
                          riskResult |-> f.riskResult,
                          signal |-> f.signal]
    /\ phase' = "done"
    /\ UNCHANGED <<barIndex, bar, htf, ltf, dispatched, prevStore, feedVars>>

EngineNext == FetchBar \/ ExecuteInstance \/ NextBar

SpecEngine == Init /\ [][EngineNext]_vars

-----------------------------------------------------------------------------
(* runBacktest over the klines it is handed, and the polling loop: the     *)
(* order in which LTF bars reach onBar                                     *)

MaxBacktestKlines == 3

RECURSIVE SortAscending(_)
SortAscending(S) ==
    IF S = {} THEN <<>>
    ELSE LET m == CHOOSE x \in S : \A y \in S : x <= y
         IN <<m>> \o SortAscending(S \ {m})

RECURSIVE InsertSorted(_, _)
InsertSorted(seq, x) ==
    IF seq = <<>> THEN <<x>>
    ELSE IF x < Head(seq) THEN <<x>> \o seq
    ELSE <<Head(seq)>> \o InsertSorted(Tail(seq), x)

RECURSIVE SortList(_)
SortList(seq) ==
    IF seq = <<>> THEN <<>> ELSE InsertSorted(SortList(Tail(seq)), Head(seq))

\* variant: the time axis is built from a list, not from a Set
sortedTimesFromList(ltfKlines) ==
    SortList([i \in 1..Len(ltfKlines) |-> ltfKlines[i].openTime])

\* const allTimes = new Set(...); Array.from(allTimes).sort((a, b) => a - b)
sortedTimes(ltfKlines) ==
    SortAscending({ ltfKlines[i].openTime : i \in 1..Len(ltfKlines) })

\* ltfKlines.findIndex(b => b.openTime === time), 1-based; 0 stands for -1
findIndex(ltfKlines, time) ==
    IF \E i \in 1..Len(ltfKlines) : ltfKlines[i].openTime = time
    THEN CHOOSE i \in 1..Len(ltfKlines) :
            /\ ltfKlines[i].openTime = time
            /\ \A j \in 1..(i - 1) : ltfKlines[j].openTime # time
    ELSE 0

BacktestKlines ==
    { Kline(i, shape) : i \in 0..(MaxBacktestKlines - 1), shape \in PaperBarShapes }

InitBacktest ==
    /\ store = NewStore
    /\ currentEquity = config.account.initialCapital
    /\ trades = <<>>
    /\ barIndex = 0
    /\ phase = "backtest"
    /\ bar = Null
    /\ htf = Null
    /\ ltf = Null
    /\ trace = Null
    /\ dispatched = Null
    /\ prevStore = NewStore
    /\ threw = FALSE
    /\ \E n \in 1..MaxBacktestKlines :
          \E ks \in [1..n -> BacktestKlines] : provider = [ltfKlines |-> ks]
    /\ paper = Null

\* one time point of runBacktest: find the instance's bar at that time and
\* execute it
RunTimePoint ==
    /\ phase = "backtest"
    /\ barIndex < Len(sortedTimes(provider.ltfKlines))
    /\ \E i \in {findIndex(provider.ltfKlines,
                           sortedTimes(provider.ltfKlines)[barIndex + 1])},
          h \in HTFIndicators, l \in PaperLTFIndicators :
          IF i = 0
          THEN UNCHANGED <<store, currentEquity, trades, threw, bar, htf, ltf, trace>>
          ELSE \E f \in {onBar(NewFrame(store, currentEquity, trades),
                               provider.ltfKlines[i], h, l)} :
                  /\ store' = f.store
                  /\ currentEquity' = f.currentEquity
                  /\ trades' = f.trades
                  /\ threw' = f.threw
                  /\ bar' = provider.ltfKlines[i]
                  /\ htf' = h
                  /\ ltf' = l
                  /\ trace' = [prevStore |-> store,
                               dispatches |-> f.dispatches,
                               calls |-> f.calls,
                               riskResult |-> f.riskResult,
                               signal |-> f.signal]
    /\ barIndex' = barIndex + 1
    /\ UNCHANGED <<phase, dispatched, prevStore, feedVars>>

OrderNext == RunTimePoint \/ ProviderNewBar \/ PaperPoll

SpecOrder == (InitBacktest \/ InitPaper) /\ [][OrderNext]_vars

\* openTimes of the bars already handed to onBar
ProcessedTimes ==
    IF phase = "polling" THEN paper.processed
    ELSE { sortedTimes(provider.ltfKlines)[k] : k \in 1..barIndex }

\* C23: within one instance LTF bars are processed in strictly increasing
\* openTime order and none is processed twice, in backtest and in paper
\* mode: every bar handed to onBar is later than all bars handed over before.
C23_BarsInIncreasingOrder ==
    [][(bar' # Null /\ provider' = provider) =>
          \A t \in ProcessedTimes : bar'.openTime > t]_vars

\* a backtest over klines holding a duplicate has run to its end
C23_Witness ==
    /\ phase = "backtest"
    /\ Len(provider.ltfKlines) > Len(sortedTimes(provider.ltfKlines))
    /\ barIndex = Len(sortedTimes(provider.ltfKlines))
    /\ barIndex >= 2
    /\ bar # Null


-----------------------------------------------------------------------------
(* Backtest command: alignment, validation, then the run *)

Intervals(klines) ==
    LET t == SortList([i \in 1..Len(klines) |-> klines[i].openTime])
    IN [i \in 1..(Len(t) - 1) |-> t[i + 1] - t[i]]

\* the first interval with the largest count
MostCommonInterval(intervals) ==
    LET count(x) == Cardinality({i \in 1..Len(intervals) : intervals[i] = x})
    IN intervals[CHOOSE i \in 1..Len(intervals) :
                    /\ \A j \in 1..Len(intervals) :
                          count(intervals[j]) <= count(intervals[i])
                    /\ \A j \in 1..(i - 1) :
                          count(intervals[j]) < count(intervals[i])]

\* the errors validateDataQuality collects, by kind
validateDataQuality(klines) ==
    IF Len(klines) = 0 THEN {"No klines data provided"}
    ELSE {"Duplicate bar" : i \in {i \in 1..Len(klines) :
                \E j \in 1..(i - 1) : klines[j].openTime = klines[i].openTime}}
         \cup {"Invalid price" : i \in {i \in 1..Len(klines) :
                \/ klines[i].high < klines[i].low
                \/ klines[i].open < klines[i].low \/ klines[i].open > klines[i].high
                \/ klines[i].close < klines[i].low \/ klines[i].close > klines[i].high
                \/ klines[i].open <= 0 \/ klines[i].high <= 0
                \/ klines[i].low <= 0 \/ klines[i].close <= 0}}
         \cup (IF Len(klines) > 1
               THEN {"Large time gap" : i \in {i \in 1..(Len(klines) - 1) :
                        Intervals(klines)[i] >
                           MostCommonInterval(Intervals(klines)) * 2}}
               ELSE {})

\* variant: the HTF length check is left out
validateTimeAlignmentUnchecked(ltfKlines, htfKlines, rawHtfIndicators, mappedHtfIndicators) ==
    IF Len(ltfKlines) # Len(mappedHtfIndicators)
    THEN [isValid |-> FALSE,
          errors |-> {"LTF klines length doesn't match mapped HTF indicators length"}]
    ELSE [isValid |-> TRUE, errors |-> {}]

\* isValid and errors of validateTimeAlignment (its warnings do not bear on
\* isValid); the bar it matches has closeTime <= openTime, so the lookahead
\* error of line 177 is never pushed
validateTimeAlignment(ltfKlines, htfKlines, rawHtfIndicators, mappedHtfIndicators) ==
    IF Len(htfKlines) # Len(rawHtfIndicators)
    THEN [isValid |-> FALSE,
          errors |-> {"HTF klines length doesn't match raw HTF indicators length"}]
    ELSE IF Len(ltfKlines) # Len(mappedHtfIndicators)
    THEN [isValid |-> FALSE,
          errors |-> {"LTF klines length doesn't match mapped HTF indicators length"}]
    ELSE [isValid |-> TRUE, errors |-> {}]

validateBacktest(ltfKlines, htfKlines, rawHtfIndicators, htfIndicatorsMapped, ltfIndicators) ==
    LET errors ==
          validateDataQuality(ltfKlines)
          \cup validateDataQuality(htfKlines)
          \cup validateTimeAlignment(ltfKlines, htfKlines, rawHtfIndicators,
                                     htfIndicatorsMapped).errors
          \cup (IF Len(ltfKlines) # Len(ltfIndicators)
                THEN {"LTF klines length doesn't match LTF indicators length"}
                ELSE {})
    IN [isValid |-> errors = {}, errors |-> errors]

\* what prepareBacktestData hands over; the raw HTF indicator series may be
\* shorter or longer than the HTF klines
ValidationFeeds ==
    { [htfKlines |-> [i \in 1..n |-> HtfKline(i - 1, start, closeGap)],
       htfIndicators |-> IF nInd = 0 THEN <<>>
                         ELSE [i \in 1..nInd |-> HtfIndicatorAt(i)],
       ltfKlines |-> [k \in 1..m |->
                        Kline(first + k - 1,
                              [low |-> 9950, close |-> 10000, high |-> 10050])],
       ltfIndicators |-> [k \in 1..m |->
                            [ema20 |-> 10100, ema50 |-> 10050, adx |-> 30,
                             adx_1h_series |-> UndefinedSeries,
                             atr |-> Undefined, donchianHigh |-> 9990]]]
      : n \in 1..MaxHtfBars, nInd \in 0..MaxHtfBars,
        start \in {0, 2 * LtfIntervalMs}, closeGap \in {0, 1},
        first \in {0, 4, 8}, m \in 1..MaxLtfWindow }

InitValidation ==
    /\ store = NewStore
    /\ currentEquity = config.account.initialCapital
    /\ trades = <<>>
    /\ barIndex = 0
    /\ phase = "prepared"
    /\ bar = Null
    /\ htf = Null
    /\ ltf = Null
    /\ trace = Null
    /\ dispatched = Null
    /\ prevStore = NewStore
    /\ threw = FALSE
    /\ provider \in ValidationFeeds
    /\ paper = Null

\* the data promise of the instance: alignHTFIndicatorsToLTF on the fetched data
AlignData ==
    /\ phase = "prepared"
    /\ trace' = [aligned |-> alignHTFIndicatorsToLTF(provider.ltfKlines,
                                                     provider.htfKlines,
                                                     provider.htfIndicators),
                 errors |-> {}]
    /\ phase' = "aligned"
    /\ UNCHANGED <<store, currentEquity, trades, barIndex, bar, htf, ltf,
                   dispatched, prevStore, threw, feedVars>>

\* validateBacktest; process.exit(1) on errors, otherwise runBacktest starts
ValidateData ==
    /\ phase = "aligned"
    /\ \E v \in {validateBacktest(provider.ltfKlines, provider.htfKlines,
                                  provider.htfIndicators, trace.aligned,
                                  provider.ltfIndicators)} :
          /\ trace' = [trace EXCEPT !.errors = v.errors]
          /\ phase' = IF v.isValid THEN "backtest" ELSE "exit"
    /\ UNCHANGED <<store, currentEquity, trades, barIndex, bar, htf, ltf,
                   dispatched, prevStore, threw, feedVars>>

ValidationNext == AlignData \/ ValidateData \/ RunTimePoint

SpecValidation == InitValidation /\ [][ValidationNext]_vars

LengthMismatch == Len(provider.htfKlines) # Len(provider.htfIndicators)

\* C24 as stated: when the HTF bar series and its feature series differ in
\* length, the aligner reports a structural error instead of producing
\* aligned feature records.
C24_AlignerReportsMismatch ==
    (phase = "aligned" /\ LengthMismatch) =>
        /\ trace.aligned = <<>>
        /\ trace.errors # {}

\* C24 amended: when the lengths differ the aligner still produces one record
\* per LTF bar; the mismatch is reported by the backtest validation, which
\* ends the run before any bar is processed.
C24_MismatchFailsValidation ==
    LengthMismatch =>
        /\ phase \in {"prepared", "aligned", "exit"}
        /\ barIndex = 0
        /\ phase \in {"aligned", "exit"} =>
              Len(trace.aligned) = Len(provider.ltfKlines)
        /\ phase = "exit" =>
              "HTF klines length doesn't match raw HTF indicators length"
                 \in trace.errors

\* validation has rejected a feed whose aligned records used a missing feature
C24_Witness ==
    /\ phase = "exit"
    /\ Len(provider.htfIndicators) < Len(provider.htfKlines)
    /\ \E k \in 1..Len(provider.ltfKlines) :
          /\ ClosedBefore(provider.ltfKlines[k]) # {}
          /\ trace.aligned[k] = UndefinedHTFIndicator
    /\ trace.errors =
          {"HTF klines length doesn't match raw HTF indicators length"}


-----------------------------------------------------------------------------
(* The high-water mark, the profit lock and the frame of a position *)

\* the position was OPEN when the bar arrived and is still OPEN after it
StaysOpen ==
    /\ Processed
    /\ trace.prevStore.state = "OPEN"
    /\ store.state = "OPEN"

\* C25: on every bar processed while a position is OPEN, maxUnrealizedR
\* becomes max(previous maxUnrealizedR, unrealized R at the bar's close), so
\* it never decreases during the position's life.
C25_MaxUnrealizedRIsHighWater ==
    StaysOpen =>
        /\ store.position.maxUnrealizedR =
              Max(PrevPos.maxUnrealizedR, calculateUnrealizedR(PrevPos, bar.close))
        /\ store.position.maxUnrealizedR >= PrevPos.maxUnrealizedR

\* the mark rises on a bar that stays below break-even
C25_Witness ==
    /\ StaysOpen
    /\ calculateUnrealizedR(PrevPos, bar.close) > PrevPos.maxUnrealizedR
    /\ calculateUnrealizedR(PrevPos, bar.close) < config.risk.breakEvenR
    /\ store.position.maxUnrealizedR = calculateUnrealizedR(PrevPos, bar.close)


\* the trailing stop the bar started from
PrevTrailingStop ==
    IF PrevPos.isTrailingActive /\ Truthy(PrevPos.trailingStop)
    THEN PrevPos.trailingStop ELSE PrevPos.entryPrice

-----------------------------------------------------------------------------
(* Paper trading started on a full history: the 200-bar buffers *)

\* the last LTF bar of the history, two LTF bars before its HTF bar closes;
\* times are counted from the model's origin and the HTF history reaches
\* back before it, so that they stay within TLC's integers
PaperFullHistoryEnd == 2 * PaperMaxKlines + 2

\* preparePaperTradingData asks for 200 klines of each timeframe and gets
\* that many, or one less
InitPaperFull ==
    /\ store = NewStore
    /\ currentEquity = config.account.initialCapital
    /\ trades = <<>>
    /\ barIndex = 0
    /\ phase = "polling"
    /\ bar = Null
    /\ htf = Null
    /\ ltf = Null
    /\ trace = Null
    /\ dispatched = Null
    /\ prevStore = NewStore
    /\ threw = FALSE
    /\ \E shape \in PaperBarShapes,
          nLtf \in {PaperMaxKlines - 1, PaperMaxKlines},
          nHtf \in {PaperMaxKlines - 1, PaperMaxKlines} :
          /\ provider = ProviderAt(PaperFullHistoryEnd, shape)
          /\ paper =
               [state |->
                   [htfKlines |-> [i \in 1..nHtf |->
                        HtfKline(HtfIndexOf(PaperFullHistoryEnd) - nHtf + i, 0, 1)],
                    ltfKlines |-> [i \in 1..nLtf |->
                        Kline(PaperFullHistoryEnd - nLtf + i, shape)],
                    lastLtfBarTime |-> Kline(PaperFullHistoryEnd, shape).openTime,
                    lastHtfBarTime |->
                        HtfKline(HtfIndexOf(PaperFullHistoryEnd), 0, 1).openTime],
                historyEnd |-> PaperFullHistoryEnd,
                processed |-> {},
                pending |-> Undefined,
                lastPoll |-> Null]

SpecPaperFull == InitPaperFull /\ [][PaperNext]_vars

\* C27: in paper mode the LTF and HTF buffers never hold more than 200 bars;
\* an append to a buffer that holds 200 evicts its eldest bar.
C27_BuffersBounded ==
    /\ [](/\ Len(paper.state.ltfKlines) <= PaperMaxKlines
          /\ Len(paper.state.htfKlines) <= PaperMaxKlines)
    /\ [][/\ (/\ paper'.state.ltfKlines # paper.state.ltfKlines
              /\ Len(paper.state.ltfKlines) = PaperMaxKlines) =>
                 paper'.state.ltfKlines =
                    Append(Tail(paper.state.ltfKlines), provider.latestLtfBar)
          /\ (/\ paper'.state.htfKlines # paper.state.htfKlines
              /\ Len(paper.state.htfKlines) = PaperMaxKlines) =>
                 paper'.state.htfKlines =
                    Append(Tail(paper.state.htfKlines), provider.latestHtfBar)]_vars

\* both buffers were full, took a new bar and dropped their eldest
C27_Witness ==
    /\ Len(paper.state.ltfKlines) = PaperMaxKlines
    /\ Len(paper.state.htfKlines) = PaperMaxKlines
    /\ paper.state.ltfKlines[1].openTime >
          (PaperFullHistoryEnd - PaperMaxKlines + 1) * LtfIntervalMs
    /\ paper.state.htfKlines[1].openTime >
          (HtfIndexOf(PaperFullHistoryEnd) - PaperMaxKlines + 1) * HtfIntervalMs
    /\ paper.state.ltfKlines[PaperMaxKlines] = provider.latestLtfBar
    /\ paper.state.htfKlines[PaperMaxKlines] = provider.latestHtfBar


-----------------------------------------------------------------------------
(* Donchian high of the LTF indicator builder *)

MaxDonchianKlines == 4
MaxDonchianLookback == 3

\* variant: a window shorter than the lookback gives undefined
getDonchianHighFullWindow(klines, lookback, currentIndex) ==
    LET start == Max(0, currentIndex - lookback)
        end == currentIndex
    IN IF currentIndex - lookback < 0 \/ start >= end \/ end = 0 THEN Undefined
       ELSE LET highs == { klines[k + 1].high : k \in start..(end - 1) }
            IN CHOOSE h \in highs : \A g \in highs : g <= h

\* currentIndex counts from 0 as in the source; klines.slice(start, end)
getDonchianHigh(klines, lookback, currentIndex) ==
    LET start == Max(0, currentIndex - lookback)
        end == currentIndex
    IN IF start >= end \/ end = 0 THEN Undefined
       ELSE LET highs == { klines[k + 1].high : k \in start..(end - 1) }
            IN IF highs = {} THEN Undefined
               ELSE CHOOSE h \in highs : \A g \in highs : g <= h

DonchianShapes == { sh \in BarShapes : sh.high \in {10000, 10050, 10200} }

InitDonchian ==
    /\ store = NewStore
    /\ currentEquity = config.account.initialCapital
    /\ trades = <<>>
    /\ barIndex = 0
    /\ phase = "klines"
    /\ bar = Null
    /\ htf = Null
    /\ ltf = Null
    /\ trace = Null
    /\ dispatched = Null
    /\ prevStore = NewStore
    /\ threw = FALSE
    /\ \E n \in 1..MaxDonchianKlines, lookback \in 1..MaxDonchianLookback :
          \E shapes \in [1..n -> DonchianShapes] :
             provider = [klines |-> [i \in 1..n |-> Kline(i - 1, shapes[i])],
                         donchianLookback |-> lookback]
    /\ paper = Null

\* buildLTFIndicators computes the Donchian high of bar i
ComputeDonchianHigh ==
    /\ phase = "klines"
    /\ \E i \in 0..(Len(provider.klines) - 1) :
          /\ barIndex' = i
          /\ bar' = provider.klines[i + 1]
          /\ trace' = [donchianHigh |->
                          getDonchianHigh(provider.klines,
                                          provider.donchianLookback, i)]
    /\ phase' = "donchian"
    /\ UNCHANGED <<store, currentEquity, trades, htf, ltf, dispatched,
                   prevStore, threw, feedVars>>

DonchianNext == ComputeDonchianHigh

SpecDonchian == InitDonchian /\ [][DonchianNext]_vars

\* the highs of the bars of the window that precede bar barIndex
PrecedingHighs ==
    { provider.klines[k + 1].high :
        k \in Max(0, barIndex - provider.donchianLookback)..(barIndex - 1) }

-----------------------------------------------------------------------------
(* Frame of the position record *)

\* C29: after OPEN_POSITION no action changes the position's initial stop,
\* entry price, entry time or size until the position is closed: whatever is
\* dispatched on a store that holds a position, the position it holds
\* afterwards has the same four values.
C29_EntryFieldsImmutable ==
    (dispatched # Null /\ prevStore.position # Null /\ store.position # Null) =>
        /\ store.position.initialStopLoss = prevStore.position.initialStopLoss
        /\ store.position.entryPrice = prevStore.position.entryPrice
        /\ store.position.entryTime = prevStore.position.entryTime
        /\ store.position.size = prevStore.position.size
        /\ store.position.side = prevStore.position.side

\* an UPDATE_STOP moved the active stop of an open position
C29_Witness ==
    /\ dispatched # Null
    /\ dispatched.type = "UPDATE_STOP"
    /\ prevStore.state = "OPEN"
    /\ store.position.stopLoss # prevStore.position.stopLoss
    /\ store.position.stopLoss # store.position.initialStopLoss
    /\ store.position.maxUnrealizedR # prevStore.position.maxUnrealizedR
    /\ store.position.initialStopLoss = prevStore.position.initialStopLoss


-----------------------------------------------------------------------------
(* Break-even *)

\* a Stage-1 position meets a bar that leaves its stop untouched and closes
\* between break-even and trailing activation
BreakEvenBar ==
    /\ RiskRan
    /\ getPositionStage(PrevPos) = 1
    /\ bar.low > PrevPos.stopLoss
    /\ calculateUnrealizedR(PrevPos, bar.close) >= config.risk.breakEvenR
    /\ calculateUnrealizedR(PrevPos, bar.close) < config.risk.trailingActivationR

\* C30: on such a bar the risk manager does not exit and moves the active
\* stop to exactly the entry price, trailing staying inactive; the position,
\* unless the strategy closes it on that bar, holds these values afterwards.
C30_BreakEvenMovesStopToEntry ==
    BreakEvenBar =>
        /\ trace.riskResult.decision.action = "NONE"
        /\ trace.riskResult.stopLossUpdate # Null
        /\ trace.riskResult.stopLossUpdate.stopLoss = PrevPos.entryPrice
        /\ trace.riskResult.stopLossUpdate.isTrailingActive = "false"
        /\ store.state = "OPEN" =>
              /\ store.position.stopLoss = PrevPos.entryPrice
              /\ ~store.position.isTrailingActive
              /\ store.position.trailingStop = Undefined
              /\ getPositionStage(store.position) = 2

C30_Witness ==
    /\ BreakEvenBar
    /\ PrevPos.stopLoss = PrevPos.initialStopLoss
    /\ PrevPos.stopLoss < PrevPos.entryPrice
    /\ store.state = "OPEN"
    /\ store.position.stopLoss = store.position.entryPrice
    /\ store.position.maxUnrealizedR >= config.risk.breakEvenR


-----------------------------------------------------------------------------
(* Activation of the trailing stop *)

\* a position that is not trailing meets a bar that leaves its stop untouched
\* and closes at or above the activation threshold
ActivationBar ==
    /\ RiskRan
    /\ ~PrevPos.isTrailingActive
    /\ bar.low > PrevPos.stopLoss
    /\ calculateUnrealizedR(PrevPos, bar.close) >= config.risk.trailingActivationR

\* the stop a trailing activation starts from on the bar being processed
ActivationStop ==
    IF ltf.ema20 # Undefined /\ ltf.ema20 > PrevPos.entryPrice
    THEN ltf.ema20 ELSE PrevPos.entryPrice

\* C31: on such a bar, from Stage 1 or Stage 2, the risk manager does not
\* exit and activates trailing in mode EMA20; the trailing stop and the
\* active stop both become the entry price, or the short EMA when that EMA is
\* defined and above the entry price.  The position, unless the strategy
\* closes it on that bar, holds these values afterwards.
C31_ActivationStartsAtEntryOrEma ==
    ActivationBar =>
        /\ trace.riskResult.decision.action = "NONE"
        /\ trace.riskResult.stopLossUpdate # Null
        /\ trace.riskResult.stopLossUpdate.isTrailingActive = "true"
        /\ trace.riskResult.stopLossUpdate.trailingMode = "EMA20"
        /\ trace.riskResult.stopLossUpdate.trailingStop = ActivationStop
        /\ trace.riskResult.stopLossUpdate.stopLoss = ActivationStop
        /\ store.state = "OPEN" =>
              /\ store.position.isTrailingActive
              /\ store.position.trailingMode = "EMA20"
              /\ store.position.trailingStop = ActivationStop
              /\ store.position.stopLoss = ActivationStop

\* activation straight from Stage 1, the short EMA above the entry price
C31_Witness ==
    /\ ActivationBar
    /\ getPositionStage(PrevPos) = 1
    /\ ltf.ema20 # Undefined
    /\ ltf.ema20 > PrevPos.entryPrice
    /\ store.state = "OPEN"
    /\ store.position.isTrailingActive
    /\ store.position.trailingStop = ltf.ema20
    /\ store.position.stopLoss = ltf.ema20


-----------------------------------------------------------------------------
(* Movement of an active trailing stop *)

\* the bar started in Stage 3 and the position is still open after it
Stage3Bar ==
    /\ StaysOpen
    /\ RiskRan
    /\ PrevPos.isTrailingActive
    /\ PrevPos.trailingStop # Undefined

\* the bar switched the trailing mode from EMA20 to EMA50
ModeSwitched ==
    /\ PrevPos.trailingMode # "EMA50"
    /\ store.position.trailingMode = "EMA50"

\* C32: in Stage 3 the trailing stop changes on a bar only when the EMA of
\* the trailing mode in force on that bar is defined and strictly greater
\* than the trailing stop, and then the trailing stop and the active stop
\* both become that EMA; with that EMA undefined or not greater the trailing
\* stop is unchanged, also on the bar that switches the mode to EMA50, so the
\* switch never lowers it.
C32_TrailingStopFollowsSelectedEma ==
    Stage3Bar =>
        /\ store.position.trailingStop =
              IF SelectedEma # Undefined /\ SelectedEma > PrevPos.trailingStop
              THEN SelectedEma ELSE PrevPos.trailingStop
        /\ store.position.stopLoss = store.position.trailingStop
        /\ store.position.trailingStop >= PrevPos.trailingStop
        /\ (ModeSwitched /\ ltf.ema50 <= PrevPos.trailingStop) =>
              store.position.trailingStop = PrevPos.trailingStop

\* the mode switches to EMA50 on a bar whose EMA50 lies below the trailing
\* stop while its EMA20 lies above it
C32_Witness ==
    /\ Stage3Bar
    /\ ModeSwitched
    /\ ltf.ema50 < PrevPos.trailingStop
    /\ ltf.ema20 # Undefined
    /\ ltf.ema20 > PrevPos.trailingStop
    /\ store.position.trailingStop = PrevPos.trailingStop
    /\ store.position.stopLoss = PrevPos.trailingStop


-----------------------------------------------------------------------------
(* The exhaustion filter on a missing or short ADX history *)

\* C33: in Stage 3, on a bar whose low reaches the trailing stop while the
\* ADX history of the bar is undefined, the filter lets the exit through: the
\* risk manager exits with TRAILING_STOP_HIT and moves no stop, and the
\* runner closes the position and records the trade with that reason.
C33_MissingHistoryAllowsExit ==
    (Stage3Touch /\ ltf.adx_1h_series = UndefinedSeries) =>
        /\ trace.riskResult.decision.action = "EXIT"
        /\ trace.riskResult.decision.reason = "TRAILING_STOP_HIT"
        /\ trace.riskResult.stopLossUpdate = Null
        /\ store.state = "FLAT"
        /\ trades # <<>>
        /\ trades[Len(trades)].reason = "TRAILING_STOP_HIT"

C33_Witness ==
    /\ Stage3Touch
    /\ ltf.adx_1h_series = UndefinedSeries
    /\ RiskExit
    /\ store.state = "FLAT"
    /\ Len(trades) = 1
    /\ trades[1].reason = "TRAILING_STOP_HIT"


\* C34: in Stage 3, on a bar whose low reaches the trailing stop while the
\* ADX history is present but holds fewer than k + 1 values, the
\* trend-exhaustion predicate is false whatever the values are, and the risk
\* manager does not exit: it returns NONE and the position stays open.
C34_ShortHistoryBlocksExit ==
    (/\ Stage3Touch
     /\ ltf.adx_1h_series # UndefinedSeries
     /\ Len(ltf.adx_1h_series) < config.risk.trendExhaustBars + 1) =>
        /\ ~isTrendExhausted(ltf.adx_1h_series, config.risk.trendExhaustADX,
                             config.risk.trendExhaustBars)
        /\ trace.riskResult.decision.action = "NONE"
        /\ store.state = "OPEN"
        /\ "logExit" \notin {trace.calls[i] : i \in 1..Len(trace.calls)}

\* the short history is itself strictly declining and ends below the
\* threshold, and the touched stop moves up on the bar
C34_Witness ==
    /\ Stage3Touch
    /\ ltf.adx_1h_series # UndefinedSeries
    /\ Len(ltf.adx_1h_series) = config.risk.trendExhaustBars
    /\ \A i \in 2..Len(ltf.adx_1h_series) :
          ltf.adx_1h_series[i] < ltf.adx_1h_series[i - 1]
    /\ ltf.adx_1h_series[Len(ltf.adx_1h_series)] < config.risk.trendExhaustADX
    /\ trace.riskResult.decision.action = "NONE"
    /\ store.state = "OPEN"
    /\ store.position.trailingStop > PrevPos.trailingStop


-----------------------------------------------------------------------------
(* The initial stop under the exhaustion filter *)

\* the risk manager ran on a bar whose low is at or below the initial stop
InitialStopReached ==
    /\ RiskRan
    /\ bar.low <= PrevPos.initialStopLoss

\* the filter lets a touched trailing stop exit on the bar being processed
FilterAllowsExit ==
    \/ ltf.adx_1h_series = UndefinedSeries
    \/ TrendExhaustionPredicate(ltf.adx_1h_series, config.risk.trendExhaustADX,
                                config.risk.trendExhaustBars)

-----------------------------------------------------------------------------
(* Stages only move forward *)

\* the store holds the same position before and after the step
SamePosition ==
    /\ store.position # Null
    /\ store'.position # Null
    /\ store'.position.entryTime = store.position.entryTime

\* C36: the stage of a position never regresses: whatever step the instance
\* takes, a position in Stage 2 is not in Stage 1 afterwards, and a position
\* whose trailing is active still has it active afterwards, until it is closed.
C36_StageNeverRegresses ==
    [][SamePosition =>
          /\ getPositionStage(store'.position) >= getPositionStage(store.position)
          /\ store.position.isTrailingActive => store'.position.isTrailingActive]_vars

\* a Stage-2 position after a bar that fell back below break-even without
\* reaching the stop
C36_Witness ==
    /\ StaysOpen
    /\ RiskRan
    /\ getPositionStage(PrevPos) = 2
    /\ bar.low > PrevPos.stopLoss
    /\ calculateUnrealizedR(PrevPos, bar.close) < config.risk.breakEvenR
    /\ PrevPos.maxUnrealizedR >= config.risk.breakEvenR
    /\ getPositionStage(store.position) = 2
    /\ store.position.stopLoss = store.position.entryPrice


-----------------------------------------------------------------------------
(* Paper trading: bars closed between two polls *)

\* the open time of the newest bar handed to onBar, or of the last
\* historical bar when none has been
LastProcessedTime ==
    IF paper.processed = {} THEN paper.historyEnd * LtfIntervalMs
    ELSE CHOOSE t \in paper.processed : \A u \in paper.processed : u <= t

\* the open times of the LTF bars the exchange has closed since start-up
ClosedBarTimes ==
    { i * LtfIntervalMs : i \in (paper.historyEnd + 1)..provider.ltfIndex }

\* C37: in paper mode no closed LTF bar is skipped: a poll that meets no
\* failure, made when nothing is half processed, leaves every LTF bar
\* closed since the last processed one handed to onBar, also when more than
\* one bar has closed since the previous poll.
C37_NoClosedBarSkipped ==
    [][(/\ paper # Null
        /\ paper' # paper
        /\ paper.state.lastLtfBarTime = LastProcessedTime
        /\ ClosedBarTimes \ paper.processed =
              { t \in ClosedBarTimes : t > LastProcessedTime }
        /\ ~paper'.lastPoll.failed) =>
           \A t \in ClosedBarTimes : t \in paper'.processed]_vars


-----------------------------------------------------------------------------
(* Several instances under one orchestrator: the backtest loop and its tasks.
   Here store, currentEquity and trades hold one value per instance, provider
   holds the instanceData map and trace the promises created so far. *)

Instances == {"BTCUSDT_TREND_V1", "ETHUSDT_TREND_V1"}

MaxTimePoints == 3

\* the LTF klines an instance can be given: ascending, at any of the time
\* points, not necessarily at all of them
InstanceKlines ==
    UNION { { [k \in 1..Cardinality(S) |-> Kline(SortAscending(S)[k], f[SortAscending(S)[k]])]
              : f \in [S -> PaperBarShapes] }
            : S \in (SUBSET (0..(MaxTimePoints - 1))) \ {{}} }

\* the unified time axis of runBacktest
allSortedTimes(instanceData) ==
    SortAscending(UNION { { instanceData[id][i].openTime : i \in 1..Len(instanceData[id]) }
                          : id \in Instances })

\* variant: the loop goes on without waiting for the promises
NoneAwaited(tasks) == TRUE

\* await Promise.allSettled(promises)
AllSettled(tasks) == \A t \in tasks : t.pc = "settled"

\* new StrategyInstance(config) for every instance, engine and orchestrator
InitInstances ==
    /\ store = [id \in Instances |-> NewStore]
    /\ currentEquity = [id \in Instances |-> config.account.initialCapital]
    /\ trades = [id \in Instances |-> <<>>]
    /\ barIndex = 0
    /\ phase = "loop"
    /\ bar = Null
    /\ htf = Null
    /\ ltf = Null
    /\ trace = [tasks |-> {}]
    /\ dispatched = Null
    /\ prevStore = NewStore
    /\ threw = FALSE
    /\ \E data \in [Instances -> InstanceKlines] : provider = [instanceData |-> data]
    /\ paper = Null

\* one time point of runBacktest up to the await: collect the bar data and
\* call executeAllInstances, whose map starts every instance's onBar; each
\* onBar runs up to its first suspension, which with the BacktestEngine is
\* after all of its dispatches and log calls
ExecuteAllInstances ==
    /\ phase = "loop"
    /\ barIndex < Len(allSortedTimes(provider.instanceData))
    /\ \E time \in {allSortedTimes(provider.instanceData)[barIndex + 1]},
          h \in {[ema50 |-> 10000, ema200 |-> 9500, adx |-> 30]},
          l \in PaperLTFIndicators :
          \E frames \in
               {[id \in Instances |->
                    IF findIndex(provider.instanceData[id], time) = 0
                    THEN NewFrame(store[id], currentEquity[id], trades[id])
                    ELSE onBar(NewFrame(store[id], currentEquity[id], trades[id]),
                               provider.instanceData[id][
                                   findIndex(provider.instanceData[id], time)],
                               h, l)]} :
             /\ store' = [id \in Instances |-> frames[id].store]
             /\ currentEquity' = [id \in Instances |-> frames[id].currentEquity]
             /\ trades' = [id \in Instances |-> frames[id].trades]
             /\ threw' = (threw \/ \E id \in Instances : frames[id].threw)
             /\ trace' = [tasks |-> trace.tasks \cup
                            { [instanceId |-> id, time |-> time, pc |-> "awaiting"]
                              : id \in { x \in Instances :
                                  findIndex(provider.instanceData[x], time) # 0 } }]
    /\ phase' = "awaiting"
    /\ UNCHANGED <<barIndex, bar, htf, ltf, dispatched, prevStore, feedVars>>

\* the promise of one instance's onBar settles (resolved, or rejected and
\* logged by the catch)
SettleTask ==
    /\ \E t \in trace.tasks :
          /\ t.pc = "awaiting"
          /\ trace' = [tasks |-> (trace.tasks \ {t}) \cup {[t EXCEPT !.pc = "settled"]}]
    /\ UNCHANGED <<store, currentEquity, trades, barIndex, phase, bar, htf, ltf,
                   dispatched, prevStore, threw, feedVars>>

\* executeAllInstances returns and the loop moves to the next time point
NextTimePoint ==
    /\ phase = "awaiting"
    /\ AllSettled(trace.tasks)
    /\ phase' = "loop"
    /\ barIndex' = barIndex + 1
    /\ UNCHANGED <<store, currentEquity, trades, bar, htf, ltf, trace,
                   dispatched, prevStore, threw, feedVars>>

InstancesNext == ExecuteAllInstances \/ SettleTask \/ NextTimePoint

SpecInstances == InitInstances /\ [][InstancesNext]_vars

\* the bar-processing tasks of an instance that have started and not completed
RunningTasks(id) ==
    { t \in trace.tasks : t.instanceId = id /\ t.pc # "settled" }

\* C38: for a single instance bar processing never overlaps: at most one
\* onBar task of the instance is running at any time, and when the task for
\* a bar has started the tasks for all the instance's earlier bars have
\* completed; tasks of different instances do run at the same time.
C38_BarProcessingNeverOverlaps ==
    \A id \in Instances :
        /\ Cardinality(RunningTasks(id)) <= 1
        /\ \A t \in trace.tasks, u \in trace.tasks :
              (t.instanceId = id /\ u.instanceId = id /\ t.time < u.time) =>
                  t.pc = "settled"

\* both instances have a task running for the same bar time, after each has
\* completed an earlier bar that opened a position
C38_Witness ==
    /\ phase = "awaiting"
    /\ \A id \in Instances :
          /\ RunningTasks(id) # {}
          /\ \E t \in trace.tasks : t.instanceId = id /\ t.pc = "settled"
          /\ Len(trades[id]) + (IF store[id].state = "OPEN" THEN 1 ELSE 0) >= 1
    /\ \E t \in trace.tasks, u \in trace.tasks :
          /\ t.instanceId # u.instanceId
          /\ t.time = u.time
          /\ t.pc = "awaiting"
          /\ u.pc = "awaiting"


-----------------------------------------------------------------------------
(* The trend-exhaustion predicate on its own *)

MaxAdxHistory == 5
MaxExhaustBars == 3

AdxValues == {18, 19, 20, 21}

InitExhaustion ==
    /\ store = NewStore
    /\ currentEquity = config.account.initialCapital
    /\ trades = <<>>
    /\ barIndex = 0
    /\ phase = "series"
    /\ bar = Null
    /\ htf = Null
    /\ \E n \in 1..MaxAdxHistory :
          \E series \in [1..n -> AdxValues] : ltf = [adx_1h_series |-> series]
    /\ trace = Null
    /\ dispatched = Null
    /\ prevStore = NewStore
    /\ threw = FALSE
    /\ provider = Null
    /\ paper = Null

\* isTrendExhausted(ltfIndicator.adx_1h_series, threshold, bars)
JudgeExhaustion ==
    /\ phase = "series"
    /\ \E bars \in 1..MaxExhaustBars :
          trace' = [threshold |-> config.risk.trendExhaustADX,
                    bars |-> bars,
                    exhausted |-> isTrendExhausted(ltf.adx_1h_series,
                                                   config.risk.trendExhaustADX, bars)]
    /\ phase' = "judged"
    /\ UNCHANGED <<store, currentEquity, trades, barIndex, bar, htf, ltf,
                   dispatched, prevStore, threw, feedVars>>

ExhaustionNext == JudgeExhaustion

SpecExhaustion == InitExhaustion /\ [][ExhaustionNext]_vars

\* the positions of the last k values of the judged series
LastBars == (Len(ltf.adx_1h_series) - trace.bars + 1)..Len(ltf.adx_1h_series)

\* C39: on an ADX history of at least k + 1 values the predicate is true
\* exactly when the last value is below the threshold and each of the last k
\* values is strictly smaller than its predecessor; a tie among them makes it
\* false, so it is false on every constant series.
C39_ExhaustedIffStrictlyDeclining ==
    (phase = "judged" /\ Len(ltf.adx_1h_series) >= trace.bars + 1) =>
        LET A == ltf.adx_1h_series
        IN /\ trace.exhausted <=>
                 /\ A[Len(A)] < trace.threshold
                 /\ \A i \in LastBars : A[i] < A[i - 1]
           /\ (\E i \in LastBars : A[i] = A[i - 1]) => ~trace.exhausted
           /\ (\A i \in 2..Len(A) : A[i] = A[1]) => ~trace.exhausted

\* a constant series below the threshold, long enough to be judged
C39_Witness ==
    /\ phase = "judged"
    /\ trace.bars = config.risk.trendExhaustBars
    /\ Len(ltf.adx_1h_series) >= trace.bars + 1
    /\ \A i \in 1..Len(ltf.adx_1h_series) :
          ltf.adx_1h_series[i] = 18
    /\ ~trace.exhausted


-----------------------------------------------------------------------------
(* The ADX history the LTF indicator builder hands to the risk manager *)

\* the builder looks back over the 10 bars before the current one
AdxHistoryWindow == 10

MaxAdxBars == 13
MaxWarmUp == 2
MaxConfiguredExhaustBars == 10

\* Number.isNaN(x) is false
IsNumber(x) == x # Undefined

\* the adxHistory loop of buildLTFIndicators for bar i (0-based), and the
\* adx_1h_series field made of it
buildAdxHistory(adxSeries, i) ==
    LET adxHistory ==
            IF i > 0
            THEN SelectSeq(SubSeq(adxSeries, Max(0, i - AdxHistoryWindow) + 1, i),
                           IsNumber)
            ELSE <<>>
    IN IF Len(adxHistory) > 0 THEN adxHistory ELSE UndefinedSeries

\* an ADX series: undefined during the warm-up, then defined on every bar
AdxSeriesOf(n, warmUp) ==
    [j \in 1..n |-> IF j <= warmUp THEN Undefined ELSE 40 - j]

InitHistory ==
    /\ store = NewStore
    /\ currentEquity = config.account.initialCapital
    /\ trades = <<>>
    /\ phase = "indicators"
    /\ bar = Null
    /\ htf = Null
    /\ ltf = Null
    /\ trace = Null
    /\ dispatched = Null
    /\ prevStore = NewStore
    /\ threw = FALSE
    /\ \E n \in 1..MaxAdxBars, warmUp \in 0..MaxWarmUp :
          /\ provider = [adxSeries |-> AdxSeriesOf(n, warmUp)]
          /\ barIndex \in 0..(n - 1)
    /\ paper = Null

\* buildLTFIndicators builds the record of bar barIndex; the risk manager of
\* an instance configured with trendExhaustBars = bars reads it
BuildHistory ==
    /\ phase = "indicators"
    /\ \E bars \in 1..MaxConfiguredExhaustBars :
          /\ ltf' = [adx_1h_series |-> buildAdxHistory(provider.adxSeries, barIndex)]
          /\ trace' = [bars |-> bars]
    /\ phase' = "history"
    /\ UNCHANGED <<store, currentEquity, trades, barIndex, bar, htf,
                   dispatched, prevStore, threw, feedVars>>

HistoryNext == BuildHistory

SpecHistory == InitHistory /\ [][HistoryNext]_vars

\* the defined ADX values of the bars before the current one
PrecedingAdx ==
    { j \in 1..barIndex : IsNumber(provider.adxSeries[j]) }

\* C40: for every configured trendExhaustBars value k the history built for
\* a bar is long enough to be judged once enough ADX values are defined:
\* when at least k + 1 bars before the current one carry a defined ADX, the
\* history holds at least k + 1 values.
C40_HistoryCoversExhaustBars ==
    (phase = "history" /\ Cardinality(PrecedingAdx) >= trace.bars + 1) =>
        /\ ltf.adx_1h_series # UndefinedSeries
        /\ Len(ltf.adx_1h_series) >= trace.bars + 1

====
